---------------------------- MODULE Spec2Model ----------------------------
(***************************************************************************)
(* Model of the NS lifecycle workflow engine of osm_lcm/ns.py: the four    *)
(* entry points instantiate, terminate, scale and action, and the          *)
(* sub-operation ledger kept in the "_admin.operations" list of a          *)
(* lifecycle operation record (nslcmop).                                   *)
(*                                                                         *)
(* Python values are modelled as strings; the string "None" stands for     *)
(* None (and for a key that is absent from a dict, which is what           *)
(* dict.get returns), "{}" for an empty dict.                              *)
(***************************************************************************)
EXTENDS Integers, Sequences, FiniteSets, TLC

\* ------------------------------------------------------------------ bounds
MaxLedger == 3        \* longest ledger explored by the ledger specification
MaxInvocations == 2   \* number of entry point invocations explored
MaxPolls == 2         \* polls of one orchestrator convergence loop explored
MaxStartUnits == 2    \* longest VCA list the directory specification starts from
MaxUnits == 4         \* longest VCA list explored by the directory specification
MaxKduRuns == 2       \* runs of deploy_kdus explored by the KDU specification
MaxEntries == 3       \* entries into instantiate_RO explored by the RO specification
MaxRetries == 3       \* largest retries given to _ns_execute_primitive by the primitive specification

\* ------------------------------------------------------- program constants
SUBOPERATION_STATUS_NOT_FOUND == -1
SUBOPERATION_STATUS_NEW == -2
SUBOPERATION_STATUS_SKIP == -3

None == "None"

\* Python truthiness of the values used here
Falsy(v) == v \in {"None", "", "{}"}

Min(S) == CHOOSE x \in S : \A y \in S : x <= y

\* ------------------------------------------------------------------ ledger
\* A checkpoint (one element of _admin.operations).  _add_suboperation stores
\* the first five keys always and the others only when they are truthy.
new_op(vnf_index, vdu_id, vdu_count_index, vdu_name, primitive, mapped_primitive_params, operationState, detailed_status, operationType, RO_nsr_id, RO_scaling_info) ==
  [member_vnf_index |-> vnf_index,
   vdu_id           |-> vdu_id,
   vdu_count_index  |-> vdu_count_index,
   primitive        |-> primitive,
   primitive_params |-> mapped_primitive_params,
   operationState   |-> IF Falsy(operationState) THEN None ELSE operationState,
   detailed_status  |-> IF Falsy(detailed_status) THEN None ELSE detailed_status,
   lcmOperationType |-> IF Falsy(operationType) THEN None ELSE operationType,
   RO_nsr_id        |-> IF Falsy(RO_nsr_id) THEN None ELSE RO_nsr_id,
   RO_scaling_info  |-> IF Falsy(RO_scaling_info) THEN None ELSE RO_scaling_info]

\* An nslcmop record as far as the ledger reads it: whether it has the
\* "_admin" key, whether "_admin" has the "operations" key, and the list.
NoAdminRecord == [has_admin |-> FALSE, has_ops |-> FALSE, operations |-> << >>]
NoOpsRecord   == [has_admin |-> TRUE,  has_ops |-> FALSE, operations |-> << >>]
EmptyRecord   == [has_admin |-> TRUE,  has_ops |-> TRUE,  operations |-> << >>]

\* db_nslcmop.get('_admin', {}).get('operations', [])
OpList(db_nslcmop) ==
  IF db_nslcmop.has_admin /\ db_nslcmop.has_ops THEN db_nslcmop.operations ELSE << >>

\* _find_suboperation: 0-based index of the first checkpoint all of whose
\* keys named in match are equal to it, else NOT_FOUND
find_suboperation(db_nslcmop, match) ==
  LET op_list == OpList(db_nslcmop)
      hits == {i \in 1..Len(op_list) : \A k \in DOMAIN match : op_list[i][k] = match[k]}
  IN IF hits = {} THEN SUBOPERATION_STATUS_NOT_FOUND ELSE Min(hits) - 1

\* db.set_one with the dotted paths _admin.operations.<i>.operationState and
\* .detailed-status: changes the stored record only
update_suboperation_status(stored, op_index, operationState, detailed_status) ==
  IF op_index >= 0 /\ op_index < Len(stored.operations)
  THEN [stored EXCEPT !.operations[op_index + 1] =
            [@ EXCEPT !.operationState = operationState,
                      !.detailed_status = detailed_status]]
  ELSE stored

\* _add_suboperation: appends to the list of the record in memory (a record
\* without "_admin" gets its list in a dict that is thrown away), writes the
\* whole list to the store and returns the index of the last element
add_suboperation(db_nslcmop, stored, vnf_index, vdu_id, vdu_count_index, vdu_name, primitive, mapped_primitive_params, operationState, detailed_status, operationType, RO_nsr_id, RO_scaling_info) ==
  LET op       == new_op(vnf_index, vdu_id, vdu_count_index, vdu_name, primitive,
                         mapped_primitive_params, operationState, detailed_status,
                         operationType, RO_nsr_id, RO_scaling_info)
      old_list == IF db_nslcmop.has_admin /\ db_nslcmop.has_ops
                  THEN db_nslcmop.operations ELSE << >>
      op_list  == IF old_list = << >> THEN << op >> ELSE Append(old_list, op)
  IN [mem    |-> IF db_nslcmop.has_admin
                 THEN [has_admin |-> TRUE, has_ops |-> TRUE, operations |-> op_list]
                 ELSE db_nslcmop,
      stored |-> [has_admin |-> TRUE, has_ops |-> TRUE, operations |-> op_list],
      ret    |-> Len(op_list) - 1]

reintent_never_skips(db_nslcmop, stored, op_index) ==
  [mem    |-> db_nslcmop,
   stored |-> update_suboperation_status(stored, op_index, "PROCESSING", "In progress"),
   ret    |-> op_index]

\* _reintent_or_skip_suboperation
reintent_or_skip_suboperation(db_nslcmop, stored, op_index) ==
  IF OpList(db_nslcmop)[op_index + 1].operationState = "COMPLETED"
  THEN [mem |-> db_nslcmop, stored |-> stored, ret |-> SUBOPERATION_STATUS_SKIP]
  ELSE [mem    |-> db_nslcmop,
        stored |-> update_suboperation_status(stored, op_index, "PROCESSING", "In progress"),
        ret    |-> op_index]

\* the match dictionary built by _check_or_add_scale_suboperation
scale_match(vnf_index, vnf_config_primitive, primitive_params, operationType, RO_nsr_id, RO_scaling_info) ==
  IF ~Falsy(RO_nsr_id) /\ ~Falsy(RO_scaling_info)
  THEN [member_vnf_index |-> vnf_index,
        RO_nsr_id        |-> RO_nsr_id,
        RO_scaling_info  |-> RO_scaling_info]
  ELSE [member_vnf_index |-> vnf_index,
        primitive        |-> vnf_config_primitive,
        primitive_params |-> primitive_params,
        lcmOperationType |-> operationType]

\* _check_or_add_scale_suboperation
check_or_add_scale_suboperation(db_nslcmop, stored, vnf_index, vnf_config_primitive, primitive_params, operationType, RO_nsr_id, RO_scaling_info) ==
  LET isRO     == ~Falsy(RO_nsr_id) /\ ~Falsy(RO_scaling_info)
      match    == scale_match(vnf_index, vnf_config_primitive, primitive_params,
                              operationType, RO_nsr_id, RO_scaling_info)
      op_index == find_suboperation(db_nslcmop, match)
      added    == IF isRO
                  THEN add_suboperation(db_nslcmop, stored, vnf_index, None, None, None,
                                        None, None, "PROCESSING", "In progress",
                                        "SCALE-RO", RO_nsr_id, RO_scaling_info)
                  ELSE add_suboperation(db_nslcmop, stored, vnf_index, None, None, None,
                                        vnf_config_primitive, primitive_params,
                                        "PROCESSING", "In progress", operationType, None, None)
  IN IF op_index = SUBOPERATION_STATUS_NOT_FOUND
     THEN [added EXCEPT !.ret = SUBOPERATION_STATUS_NEW]
     ELSE reintent_or_skip_suboperation(db_nslcmop, stored, op_index)


\* --------------------------------------------------------------- variables
VARIABLES
  L_rec,      \* ledger specification: the nslcmop record in memory
  L_stored,   \* ledger specification: the nslcmop record in the store
  L_call,     \* ledger specification: the last ledger call and what it returned
  L_new,      \* ledger specification: the keys for which NEW was returned
  opShape,    \* per operation id: the entry point it is for and its parameters
  wf,         \* per invocation: position and local variables of the coroutine
  nsrs,       \* the stored NSR record of the instance
  nslcmops,   \* the stored nslcmop records, by operation id
  lcm_tasks,  \* the task registry: lock owners and registered invocations
  msg,        \* the notifications written to the message bus, in order
  calls,      \* the requests made to the VCA, RO and K8s layers, in order
  D_mem,      \* directory specification: db_nsr["_admin"]["deployed"]["VCA"] in memory
  D_db,       \* directory specification: _admin.deployed.VCA of the stored NSR
  D_call,     \* directory specification: the last _deploy_n2vc call and the index it used
  N_mem,      \* unit specification: db_nsr["_admin"]["deployed"]["VCA"] held by instantiate()
  N_db,       \* unit specification: _admin.deployed.VCA of the stored NSR
  N_task,     \* unit specification: position and locals of one instantiate_N2VC task
  N_call,     \* unit specification: the last call the task made to N2VC
  K_db,       \* KDU specification: _admin.deployed.K8s of the stored NSR
  K_task,     \* KDU specification: position and locals of the deploy_kdus task
  K_installs, \* KDU specification: per KDU, the install requests made to the K8s cluster
  K_kdurs,    \* KDU specification: the kdur entries of the vnfrs of the instance
  P_loop,     \* loop specification: position and locals of one convergence loop
  P_write,    \* loop specification: the status text last written to the store
  R_ro,       \* RO specification: the vnfd, nsd and ns objects the orchestrator holds
  R_db,       \* RO specification: _admin.deployed.RO of the stored NSR
  R_mem,      \* RO specification: _admin.deployed.RO of db_nsr in memory
  R_task,     \* RO specification: position and locals of the instantiate_RO task
  R_call,     \* RO specification: the last request made to the orchestrator
  E_task,     \* primitive specification: position and locals of one _ns_execute_primitive call
  E_lcmop     \* primitive specification: what action stored in the nslcmop

dirVars == << D_mem, D_db, D_call >>
n2vcVars == << N_mem, N_db, N_task, N_call >>
kduVars == << K_db, K_task, K_installs, K_kdurs >>
loopVars == << P_loop, P_write >>
roVars == << R_ro, R_db, R_mem, R_task, R_call >>
execVars == << E_task, E_lcmop >>
subVars == << dirVars, n2vcVars, kduVars, loopVars, roVars, execVars >>

vars == << L_rec, L_stored, L_call, L_new, opShape, wf, nsrs, nslcmops, lcm_tasks, msg, calls, subVars >>

ledgerVars == << L_rec, L_stored, L_call, L_new >>
engineVars == << opShape, wf, nsrs, nslcmops, lcm_tasks, msg, calls >>

Ops  == {"op1", "op2"}
Invs == 1..MaxInvocations


\* what an action of one specification leaves unchanged
notDirVars == << ledgerVars, engineVars, n2vcVars, kduVars, loopVars, roVars, execVars >>
notN2vcVars == << ledgerVars, engineVars, dirVars, kduVars, loopVars, roVars, execVars >>
notKduVars == << ledgerVars, engineVars, dirVars, n2vcVars, loopVars, roVars, execVars >>
notLoopVars == << ledgerVars, engineVars, dirVars, n2vcVars, kduVars, roVars, execVars >>
notRoVars == << ledgerVars, engineVars, dirVars, n2vcVars, kduVars, loopVars, execVars >>
notExecVars == << ledgerVars, engineVars, dirVars, n2vcVars, kduVars, loopVars, roVars >>
\* ------------------------------------------------ the ledger specification
\* The arguments of one _check_or_add_scale_suboperation call
PrimitiveKeys ==
  { [vnf_index |-> k[1], vnf_config_primitive |-> "touch", primitive_params |-> "p1",
     operationType |-> k[2], RO_nsr_id |-> None, RO_scaling_info |-> None] :
    k \in { <<"1", "PRE-SCALE">>, <<"1", "POST-SCALE">>, <<"2", "PRE-SCALE">> } }
ROKeys ==
  { [vnf_index |-> "1", vnf_config_primitive |-> None, primitive_params |-> None,
     operationType |-> "SCALE-RO", RO_nsr_id |-> "ro1", RO_scaling_info |-> "si1"] }
LedgerKeys == PrimitiveKeys \cup ROKeys

NoCall == [kind |-> "none", key |-> None, ret |-> 0, tick |-> 0]

L_CheckOrAdd(key) ==
  LET r == check_or_add_scale_suboperation(L_rec, L_stored, key.vnf_index,
               key.vnf_config_primitive, key.primitive_params, key.operationType,
               key.RO_nsr_id, key.RO_scaling_info)
  IN /\ Len(L_stored.operations) < MaxLedger
     /\ L_rec' = r.mem
     /\ L_stored' = r.stored
     /\ L_call' = [kind |-> "check", key |-> key, ret |-> r.ret, tick |-> 1 - L_call.tick]
     /\ L_new' = IF r.ret = SUBOPERATION_STATUS_NEW THEN L_new \cup {key} ELSE L_new
     /\ UNCHANGED << engineVars, subVars >>

\* scale() records the outcome of a sub-operation in the store
L_UpdateStatus(op_index, operationState) ==
  /\ op_index < Len(L_stored.operations)
  /\ L_stored' = update_suboperation_status(L_stored, op_index, operationState, "Done")
  /\ L_call' = [kind |-> "update", key |-> None, ret |-> op_index, tick |-> 1 - L_call.tick]
  /\ UNCHANGED << L_rec, L_new, engineVars, subVars >>

\* a later invocation reads the record from the store: db.get_one("nslcmops", ...)
L_Reload ==
  /\ L_rec # L_stored
  /\ L_rec' = L_stored
  /\ L_call' = [kind |-> "reload", key |-> None, ret |-> 0, tick |-> 1 - L_call.tick]
  /\ UNCHANGED << L_stored, L_new, engineVars, subVars >>



\* ------------------------------------------------------ the workflow engine
\* What an operation id is for.  variant selects the operation parameters and
\* descriptor: scale "std" has a pre-scale and a post-scale action running a
\* primitive with parameters, "noparams" the same with a primitive without
\* parameters, "nodata" has no scaleVnfData, "in" is "std" as a SCALE_IN (the
\* others are SCALE_OUT); action "std" runs a VNF primitive,
\* "kdu" a KDU upgrade; terminate "prim" has one terminate-config-primitive.
OpShapes ==
  { [kind |-> "instantiate", variant |-> "std"],
    [kind |-> "terminate",   variant |-> "std"],
    [kind |-> "terminate",   variant |-> "prim"],
    [kind |-> "scale",       variant |-> "std"],
    [kind |-> "scale",       variant |-> "noparams"],
    [kind |-> "scale",       variant |-> "nodata"],
    [kind |-> "scale",       variant |-> "in"],
    [kind |-> "action",      variant |-> "std"],
    [kind |-> "action",      variant |-> "kdu"] }

Kind(op)    == opShape[op].kind
Variant(op) == opShape[op].variant

Terminal == {"COMPLETED", "FAILED_TEMP", "FAILED"}

\* _admin.deployed of the NSR is None (absent), "empty" (the lists instantiate
\* creates, nothing deployed yet), "full" (deployed at RO, VCA and K8s) or
\* "cleared" (RO identifiers set to None by terminate).
\* The descriptor and operation parameters of the instance: one VNF with
\* member-vnf-index "1" whose charm is deployed, one config primitive
TheVnfIndex  == "1"
ThePrimitive == "touch"
TheRONsrId   == "ro1"
TheRONsdId   == "nsd1"
TheROVnfdId  == "vnfd1"
TheROScalingInfo == "vdu-create"
PrimitiveParams(op) == IF Variant(op) = "noparams" THEN "{}" ELSE "p1"
ScalingType(op) == IF Variant(op) = "in" THEN "SCALE_IN" ELSE "SCALE_OUT"
ROScalingInfo(op) == IF Variant(op) = "in" THEN "vdu-delete" ELSE TheROScalingInfo

\* max-instance-count and min-instance-count of the scaling-group-descriptor
max_instance_count == 1
min_instance_count == 0

\* local variables of one invocation, before it runs
\* the outcomes of a task at the end of asyncio.wait
KduOutcomes == {"done", "raised"}
N2vcOutcomes == {"done", "pending", "cancelled", "raised"}
NoOutcomes == [t \in {} |-> "done"]

IdleWf ==
  [pc |-> "idle", nslcmop_id |-> None, locked |-> "none",
   db_nslcmop |-> NoAdminRecord,      \* the record read at entry, as the ledger sees it
   loaded_lcmop |-> FALSE,            \* db_nslcmop is not None
   loaded_nsr |-> FALSE,              \* db_nsr is not None
   upd_operationState |-> None,       \* db_nslcmop_update["operationState"]
   upd_detailed |-> None,             \* db_nslcmop_update["detailed-status"]
   upd_any |-> FALSE,                 \* db_nslcmop_update has some other key
   upd_nsState |-> None,              \* db_nsr_update["_admin.nsState"]
   upd_deployed |-> None,             \* db_nsr_update["_admin.deployed.RO..."]
   nslcmop_operation_state |-> None,
   exc |-> None,
   cancelled |-> FALSE,               \* asyncio.CancelledError was raised in the try block
   ok |-> "unbound",                  \* instantiated_ok / terminate_ok
   error_text |-> None,               \* error_text of instantiate
   failed_detail |-> << >>,           \* failed_detail of terminate
   RO_fail |-> FALSE,
   RO_delete_action |-> None,
   upd_delete_action |-> None,        \* db_nsr_update["_admin.deployed.RO.nsr_delete_action_id"]
   upd_nsd |-> FALSE,                 \* db_nsr_update has "_admin.deployed.RO.nsd_id": None
   upd_vnfd |-> FALSE,                \* db_nsr_update has "_admin.deployed.RO.vnfd.0.id": None
   pending_tasks |-> FALSE,           \* pending_tasks is not empty
   ro_answers |-> << >>,              \* what RO answered to the requests of terminate
   task_delete_ee |-> None,           \* the task of n2vc.delete_namespace
   ns_status |-> None,                \* the last ns_status of the loop of instantiate_RO
   ro_build |-> FALSE,                \* that loop has seen BUILD
   outcomes |-> NoOutcomes,           \* how asyncio.wait found each task
   op_index |-> 0, vnf_index |-> None,
   detailed_status_old |-> None,
   polls |-> 0,
   nb_scale_op |-> 0,                 \* nb_scale_op of scale
   upd_nb_scale_op |-> FALSE,         \* db_nsr_update holds nb-scale-op = nb_scale_op
   pre_ok |-> FALSE,                  \* its pre-scale primitive returned 'OK'
   vnfr_scaled |-> FALSE,             \* vnfr_scaled of scale: scale_vnfr was called
   wrote |-> None,                    \* the operationState this invocation stored
   dbfail |-> FALSE]                  \* a write of its finally block failed

\* what is kept of an invocation once its coroutine has ended
Ended(w, pc) ==
  [IdleWf EXCEPT !.pc = pc, !.nslcmop_id = w.nslcmop_id, !.locked = w.locked,
                 !.loaded_lcmop = w.loaded_lcmop, !.wrote = w.wrote, !.dbfail = w.dbfail,
                 !.pre_ok = w.pre_ok, !.cancelled = w.cancelled,
                 !.vnfr_scaled = w.vnfr_scaled]

InitNsr(instantiated) ==
  [nsState_admin |-> IF instantiated THEN "INSTANTIATED" ELSE "NOT_INSTANTIATED",
   nsState |-> IF instantiated THEN "READY" ELSE "NOT_INSTANTIATED",
   currentOperation |-> "IDLE",
   currentOperationID |-> None,
   errorDescription |-> None,
   errorDetail |-> None,
   current_operation_admin |-> None,  \* _admin.current-operation and _admin.nslcmop
   deployed |-> IF instantiated THEN "full" ELSE None,
   RO_delete_action |-> None,         \* _admin.deployed.RO.nsr_delete_action_id
   RO_nsd_id |-> IF instantiated THEN TheRONsdId ELSE None,
   RO_vnfd_id |-> IF instantiated THEN TheROVnfdId ELSE None,
   nb_scale_op |-> 0]                 \* _admin.scaling-group.<i>.nb-scale-op

InitEngine ==
  /\ opShape \in [Ops -> OpShapes]
  /\ wf = [i \in Invs |-> IdleWf]
  /\ \E instantiated \in BOOLEAN : nsrs = InitNsr(instantiated)
  /\ nslcmops = [o \in Ops |-> [operationState |-> "PROCESSING", detailed_status |-> None,
                                   led |-> NoOpsRecord]]
  /\ lcm_tasks = [owner |-> [o \in Ops |-> 0], order |-> << >>]
  /\ msg = << >>
  /\ calls = << >>

InitLedger ==
  /\ L_rec \in {NoAdminRecord, NoOpsRecord, EmptyRecord}
  /\ L_stored = L_rec
  /\ L_call = NoCall
  /\ L_new = {}

\* ----------------------------------------------------------- task registry
\* lcm_tasks.register: the invocation joins the in-flight tasks of the instance
register(reg, i, op) ==
  [owner |-> [reg.owner EXCEPT ![op] = i], order |-> Append(reg.order, i)]

\* lcm_tasks.remove
remove(reg, i, op) ==
  [owner |-> [reg.owner EXCEPT ![op] = 0],
   order |-> SelectSeq(reg.order, LAMBDA j : j # i)]

\* lcm_tasks.lock_HA('ns', 'nslcmops', nslcmop_id) answers False
lock_taken(op) == lcm_tasks.owner[op] # 0

\* the invocations registered before invocation i
Earlier(i) ==
  { lcm_tasks.order[m] : m \in { m \in 1..Len(lcm_tasks.order) :
        \E n \in 1..Len(lcm_tasks.order) : n > m /\ lcm_tasks.order[n] = i } }

\* lcm_tasks.waitfor_related_HA returns: the tasks registered earlier have ended
waitfor_related_HA(i) == \A j \in Earlier(i) : wf[j].pc \in {"done", "raised"}

\* ------------------------------------------------------------ store writes
\* _write_ns_status without the keys errorDescription and errorDetail
write_ns_status_keeps_errors(nsr, ns_state, current_operation, current_operation_id, error_description, error_detail) ==
  [nsr EXCEPT !.nsState = IF Falsy(ns_state) THEN @ ELSE ns_state,
              !.currentOperation = current_operation,
              !.currentOperationID = current_operation_id,
              !.errorDescription = IF error_description = None THEN @ ELSE error_description,
              !.errorDetail = IF error_detail = None THEN @ ELSE error_detail]

\* _write_ns_status
write_ns_status(nsr, ns_state, current_operation, current_operation_id, error_description, error_detail) ==
  [nsr EXCEPT !.nsState = IF Falsy(ns_state) THEN @ ELSE ns_state,
              !.currentOperation = current_operation,
              !.currentOperationID = current_operation_id,
              !.errorDescription = error_description,
              !.errorDetail = error_detail]

\* update_db_2("nsrs", nsr_id, db_nsr_update) while the operation runs:
\* db_nsr_update still holds the three _admin keys set at entry
update_nsr_running(nsr, w) ==
  [nsr EXCEPT !.current_operation_admin = w.nslcmop_id,
              !.nsState_admin = IF w.upd_nsState = None THEN @ ELSE w.upd_nsState,
              !.deployed = IF w.upd_deployed = None THEN @ ELSE w.upd_deployed,
              !.nb_scale_op = IF w.upd_nb_scale_op THEN w.nb_scale_op ELSE @,
              !.RO_delete_action = CASE w.upd_delete_action = None -> @
                                     [] w.upd_delete_action = "cleared" -> None
                                     [] OTHER -> w.upd_delete_action,
              !.RO_nsd_id = IF w.upd_nsd THEN None ELSE @,
              !.RO_vnfd_id = IF w.upd_vnfd THEN None ELSE @]

\* update_db_2("nsrs", nsr_id, db_nsr_update) of the finally blocks, after
\* the three _admin keys have been set to None
update_nsr_final(nsr, w) ==
  [nsr EXCEPT !.current_operation_admin = None,
              !.nsState_admin = IF w.upd_nsState = None THEN @ ELSE w.upd_nsState,
              !.deployed = IF w.upd_deployed = None THEN @ ELSE w.upd_deployed,
              !.nb_scale_op = IF w.upd_nb_scale_op THEN w.nb_scale_op ELSE @,
              !.RO_delete_action = CASE w.upd_delete_action = None -> @
                                     [] w.upd_delete_action = "cleared" -> None
                                     [] OTHER -> w.upd_delete_action,
              !.RO_nsd_id = IF w.upd_nsd THEN None ELSE @,
              !.RO_vnfd_id = IF w.upd_vnfd THEN None ELSE @]

\* update_db_2("nslcmops", nslcmop_id, db_nslcmop_update)
update_nslcmop(lcmop, w) ==
  [lcmop EXCEPT !.operationState =
                   IF w.upd_operationState = None THEN @ ELSE w.upd_operationState,
                !.detailed_status =
                   IF w.upd_detailed = None THEN @ ELSE w.upd_detailed]

\* the local variables after that write
after_update_nslcmop(w) ==
  [w EXCEPT !.wrote = IF w.upd_operationState = None THEN @ ELSE w.upd_operationState]

\* db.get_one("nslcmops") and db.get_one("nsrs") at the start of the try block;
\* loadfail names the read that raises DbException
load(w, lcmop, loadfail) ==
  [w EXCEPT !.loaded_lcmop = (loadfail # "nslcmop"),
            !.db_nslcmop = IF loadfail # "nslcmop" THEN lcmop.led ELSE @,
            !.loaded_nsr = (loadfail = "none"),
            !.exc = IF loadfail = "none" THEN None ELSE "DbException"]
LoadFails == {"none", "nslcmop", "nsr"}

\* --------------------------------------------------------- finally blocks
\* Each gives the local variables, the NSR and the nslcmop after the block
\* has run up to its notification, and how it goes on: "notify" (the await of
\* msg.aiowrite), "remove" (no notification, straight to lcm_tasks.remove) or
\* "raise" (an exception that is no DbException leaves the block).  dbok says
\* whether the first update_db_2 of the block's try statement succeeds.
\* "if exc: if db_nslcmop: ..." at the head of each block; the detailed-status
\* "FAILED <step>: <exc>" is modelled by the text of exc
set_failed(w) ==
  IF w.exc # None /\ w.loaded_lcmop
  THEN [w EXCEPT !.upd_operationState = "FAILED", !.nslcmop_operation_state = "FAILED",
                 !.upd_detailed = w.exc]
  ELSE w

after_finally(w) == IF w.nslcmop_operation_state # None THEN "notify" ELSE "remove"

\* instantiate: finally
instantiate_finally(w, nsr, lcmop, dbok) ==
  LET upd == w.upd_operationState # None \/ w.upd_any        \* db_nslcmop_update
  IN IF ~dbok /\ (w.loaded_nsr \/ upd)
     THEN [w |-> [w EXCEPT !.dbfail = TRUE], nsr |-> nsr, lcmop |-> lcmop,
           next |-> after_finally(w)]
     ELSE IF w.loaded_nsr /\ w.ok = "unbound"                \* "if instantiated_ok:"
     THEN [w |-> w, nsr |-> update_nsr_final(nsr, w), lcmop |-> lcmop, next |-> "raise"]
     ELSE [w     |-> IF upd THEN after_update_nslcmop(w) ELSE w,
           nsr   |-> IF w.loaded_nsr
                     THEN write_ns_status(update_nsr_final(nsr, w),
                                          IF w.ok = "true" THEN "READY" ELSE "BROKEN",
                                          "IDLE", None,
                                          IF w.ok = "true" THEN None ELSE "Operation: INSTANTIATING",
                                          IF w.ok = "true" THEN None ELSE w.error_text)
                     ELSE nsr,
           lcmop |-> IF upd THEN update_nslcmop(lcmop, w) ELSE lcmop,
           next  |-> after_finally(w)]

\* terminate: finally
terminate_finally(w, nsr, lcmop, dbok) ==
  LET upd    == w.loaded_lcmop /\ (w.upd_operationState # None \/ w.upd_any)
      w2     == IF upd THEN after_update_nslcmop(w) ELSE w
      lcmop2 == IF upd THEN update_nslcmop(lcmop, w) ELSE lcmop
  IN IF ~dbok /\ (w.loaded_nsr \/ upd)
     THEN [w |-> [w EXCEPT !.dbfail = TRUE], nsr |-> nsr, lcmop |-> lcmop,
           next |-> after_finally(w)]
     ELSE IF w.loaded_nsr /\ w.ok = "unbound"                \* "if terminate_ok:"
     THEN [w |-> w2, nsr |-> update_nsr_final(nsr, w), lcmop |-> lcmop2, next |-> "raise"]
     ELSE [w     |-> w2,
           nsr   |-> IF w.loaded_nsr
                     THEN write_ns_status(update_nsr_final(nsr, w),
                                          IF w.ok = "true" THEN "IDLE" ELSE "BROKEN",
                                          "IDLE", None,
                                          IF w.ok = "true" THEN None ELSE "Operation: TERMINATING",
                                          IF w.ok = "true" THEN None ELSE w.error_text)
                     ELSE nsr,
           lcmop |-> lcmop2,
           next  |-> after_finally(w)]

\* action: finally
action_finally(w, nsr, lcmop, dbok) ==
  LET upd == w.upd_operationState # None \/ w.upd_any
  IN IF ~dbok /\ (w.loaded_nsr \/ upd)
     THEN [w |-> [w EXCEPT !.dbfail = TRUE], nsr |-> nsr, lcmop |-> lcmop,
           next |-> after_finally(w)]
     ELSE [w     |-> IF upd THEN after_update_nslcmop(w) ELSE w,
           nsr   |-> IF w.loaded_nsr
                     THEN write_ns_status(update_nsr_final(nsr, w), None, "IDLE", None, None, None)
                     ELSE nsr,
           lcmop |-> IF upd THEN update_nslcmop(lcmop, w) ELSE lcmop,
           next  |-> after_finally(w)]

\* scale: finally
scale_finally(w, nsr, lcmop, dbok) ==
  LET upd == w.loaded_lcmop /\ (w.upd_operationState # None \/ w.upd_any)
  IN IF ~dbok /\ (w.loaded_nsr \/ upd)
     THEN [w |-> [w EXCEPT !.dbfail = TRUE], nsr |-> nsr, lcmop |-> lcmop,
           next |-> after_finally(w)]
     ELSE [w     |-> IF upd THEN after_update_nslcmop(w) ELSE w,
           nsr   |-> IF w.loaded_nsr
                     THEN write_ns_status(update_nsr_final(nsr, w), None, "IDLE", None, None, None)
                     ELSE nsr,
           lcmop |-> IF upd THEN update_nslcmop(lcmop, w) ELSE lcmop,
           next  |-> after_finally(w)]

finally(kind, w, nsr, lcmop, dbok) ==
  CASE kind = "instantiate" -> instantiate_finally(set_failed(w), nsr, lcmop, dbok)
    [] kind = "terminate"   -> terminate_finally(set_failed(w), nsr, lcmop, dbok)
    [] kind = "action"      -> action_finally(set_failed(w), nsr, lcmop, dbok)
    [] kind = "scale"       -> scale_finally(set_failed(w), nsr, lcmop, dbok)

\* One step of a coroutine, from one suspension to the next, is computed as a
\* context c: the local variables w, the NSR, the nslcmop and the call log after
\* the step, and the position pc reached ("finally": the try block was left).
\* The coroutine is suspended again at c.pc
Suspend(i, c) ==
  /\ wf' = [wf EXCEPT ![i] = [c.w EXCEPT !.pc = c.pc]]
  /\ nsrs' = c.nsr
  /\ nslcmops' = [nslcmops EXCEPT ![c.w.nslcmop_id] = c.lcmop]
  /\ UNCHANGED lcm_tasks

\* The finally block has run with result f: the coroutine awaits msg.aiowrite,
\* or calls lcm_tasks.remove and ends, or ends with the exception
Finish(i, f) ==
  /\ nsrs' = f.nsr
  /\ nslcmops' = [nslcmops EXCEPT ![f.w.nslcmop_id] = f.lcmop]
  /\ CASE f.next = "notify" ->
            /\ wf' = [wf EXCEPT ![i] = [f.w EXCEPT !.pc = "notify"]]
            /\ UNCHANGED lcm_tasks
       [] f.next = "remove" ->
            /\ wf' = [wf EXCEPT ![i] = Ended(f.w, "done")]
            /\ lcm_tasks' = remove(lcm_tasks, i, f.w.nslcmop_id)
       [] f.next = "raise" ->
            /\ wf' = [wf EXCEPT ![i] = Ended(f.w, "raised")]
            /\ UNCHANGED lcm_tasks

\* Step applies a context to the state
Step(i, c, dbok) ==
  /\ calls' = c.calls
  /\ UNCHANGED << msg, opShape, ledgerVars, subVars >>
  /\ IF c.pc # "finally"
     THEN Suspend(i, c)
     ELSE Finish(i, finally(Kind(c.w.nslcmop_id), c.w, c.nsr, c.lcmop, dbok))

Ctx(w, nsr, lcmop, log, pc) == [w |-> w, nsr |-> nsr, lcmop |-> lcmop, calls |-> log, pc |-> pc]

\* one entry of the call log
Call(fn, op, a1, a2, a3, resumed, sent) ==
  [fn |-> fn, op |-> op, a1 |-> a1, a2 |-> a2, a3 |-> a3, resumed |-> resumed, sent |-> sent]

\* the context with which invocation i resumes
Here(i) == Ctx(wf[i], nsrs, nslcmops[wf[i].nslcmop_id], calls, wf[i].pc)

Raise(c, e) == [c EXCEPT !.w.exc = e, !.pc = "finally"]

\* ------------------------------------------------------------ entry points
EnterNotLockedWritesNsr(i, op) ==
  /\ wf' = [wf EXCEPT ![i] = [Ended(@, "done") EXCEPT !.nslcmop_id = op, !.locked = "no"]]
  /\ nsrs' = [nsrs EXCEPT !.current_operation_admin = op]
  /\ UNCHANGED << nslcmops, lcm_tasks, msg, calls >>

\* lock_HA answered False: the entry point returns at once
EnterNotLocked(i, op) ==
  /\ wf' = [wf EXCEPT ![i] = [Ended(@, "done") EXCEPT !.nslcmop_id = op, !.locked = "no"]]
  /\ UNCHANGED << nsrs, nslcmops, lcm_tasks, msg, calls >>

\* lock_HA answered True: the entry point writes the operation into the NSR
\* and suspends in waitfor_related_HA
EnterLocked(i, op) ==
  /\ lcm_tasks' = register(lcm_tasks, i, op)
  /\ nsrs' = [nsrs EXCEPT !.current_operation_admin = op]
  /\ wf' = [wf EXCEPT ![i] = [@ EXCEPT !.pc = "wait", !.nslcmop_id = op, !.locked = "yes"]]
  /\ UNCHANGED << nslcmops, msg, calls >>

\* instantiate, terminate, action or scale is called for operation op.  The
\* invocations are numbered in the order of their calls, and the operation of
\* the first call is named "op1".
Enter(i, op) ==
  /\ wf[i].pc = "idle"
  /\ IF i = 1 THEN op = "op1" ELSE wf[i - 1].pc # "idle"
  /\ IF lock_taken(op) THEN EnterNotLocked(i, op) ELSE EnterLocked(i, op)
  /\ UNCHANGED << opShape, ledgerVars, subVars >>

\* the start of a try block: the wait is over, the status is written and the
\* two records are read
Started(i, ns_state, current_operation, loadfail) ==
  LET o == wf[i].nslcmop_id
  IN Ctx(load(wf[i], nslcmops[o], loadfail),
         write_ns_status(nsrs, ns_state, current_operation, o, None, None),
         nslcmops[o], calls, IF loadfail = "none" THEN "body" ELSE "finally")

AtWait(i, kind) ==
  /\ wf[i].pc = "wait"
  /\ Kind(wf[i].nslcmop_id) = kind
  /\ waitfor_related_HA(i)

\* ------------------------------------------------------------- instantiate
\* instantiate from the end of the wait to the join of the deployment tasks;
\* prep_ok is whether the reads and writes before the tasks are created succeed
instantiate_body(c, prep_ok) ==
  IF c.pc = "finally" THEN c
  ELSE IF ~prep_ok THEN Raise(c, "DbException")
  ELSE LET w == [c.w EXCEPT !.upd_nsState = "INSTANTIATED", !.ok = "true"]
           nsr == [c.nsr EXCEPT !.deployed = IF @ = None THEN "empty" ELSE @]
       IN Ctx(w, update_nsr_running(nsr, w), c.lcmop,
              Append(c.calls, Call("deploy", w.nslcmop_id, None, None, None, FALSE, TRUE)),
              "join")

I_Start(i, loadfail, prep_ok, dbok) ==
  /\ AtWait(i, "instantiate")
  /\ Step(i, instantiate_body(Started(i, "BUILDING", "INSTANTIATING", loadfail), prep_ok), dbok)

\* RO.show of the loop of instantiate_RO answers while instantiate waits in
\* asyncio.wait: the task task_ro goes on polling as long as the ns is in BUILD
I_ROShow(i, ns_status) ==
  /\ wf[i].pc = "join"
  /\ wf[i].ns_status \in {None, "BUILD"}
  /\ wf' = [wf EXCEPT ![i].ns_status = ns_status,
                      ![i].ro_build = @ \/ ns_status = "BUILD"]
  /\ UNCHANGED << nsrs, nslcmops, lcm_tasks, msg, calls, opShape, ledgerVars, subVars >>

\* the tasks of task_instantiation_list, by their task_instantiation_info
task_kdu == "Deploy KDUs"
task_ro == "Deploy at VIM"
task_n2vc == "Deploy VCA"
task_instantiation_list == {task_kdu, task_ro, task_n2vc}

\* the orders in which the sets done and pending of asyncio.wait may be iterated
TaskOrders ==
  { s \in [1..3 -> task_instantiation_list] : \A t \in task_instantiation_list : \E n \in 1..3 : s[n] = t }

\* the timeout of asyncio.wait and the ceiling of the loop of instantiate_RO,
\* both counted from the creation of the tasks
timeout == 3600
total_deploy_timeout == 2 * 3600

\* how task_ro is found when asyncio.wait returns: done after ACTIVE, failed
\* with ROClientException after ERROR; while the ns stays in BUILD the task
\* ends by itself only at its ceiling, otherwise the wait's timeout leaves it
\* pending
task_ro_outcome(ns_status) ==
  CASE ns_status = "ACTIVE" -> "done"
    [] ns_status = "ERROR"  -> "raised"
    [] OTHER -> IF total_deploy_timeout < timeout THEN "raised" ELSE "pending"

\* str(exc) of the exception a task ended with
task_exception(task, ns_status) ==
  CASE task = task_ro /\ ns_status = "ERROR" -> "VIM error"
    [] task = task_ro   -> "Timeout waiting ns to be ready"
    [] task = task_n2vc -> "N2VCException"
    [] task = task_kdu  -> "K8sException"

\* the entry of error_text_list for a task that did not end well
error_text_entry(task, outcome, ns_status) ==
  CASE outcome = "pending"   -> task \o ": Timeout"
    [] outcome = "cancelled" -> task \o ": Cancelled"
    [] outcome = "raised"    -> task \o ": " \o task_exception(task, ns_status)

\* "\n".join(lines)
RECURSIVE join_lines(_)
join_lines(lines) ==
  IF lines = << >> THEN ""
  ELSE IF Len(lines) = 1 THEN lines[1]
  ELSE lines[1] \o "\n" \o join_lines(Tail(lines))

\* the same join, but a failure of a done task is dropped
error_text_list_pending_only(outcomes, order, ns_status) ==
  LET pending == SelectSeq(order, LAMBDA t : outcomes[t] = "pending")
  IN [n \in 1..Len(pending) |-> error_text_entry(pending[n], outcomes[pending[n]], ns_status)]

\* error_text_list after the two loops: the pending tasks, then the done
\* tasks that were cancelled or ended with an exception
error_text_list(outcomes, order, ns_status) ==
  LET pending == SelectSeq(order, LAMBDA t : outcomes[t] = "pending")
      done    == SelectSeq(order, LAMBDA t : outcomes[t] \in {"cancelled", "raised"})
      failed  == pending \o done
  IN [n \in 1..Len(failed) |-> error_text_entry(failed[n], outcomes[failed[n]], ns_status)]

\* asyncio.wait of the deployment tasks returns with the outcome of each task
instantiate_joined(c, errors) ==
  IF errors # << >>
  THEN [c EXCEPT !.w.ok = "false", !.w.upd_operationState = "FAILED_TEMP",
                 !.w.nslcmop_operation_state = "FAILED_TEMP",
                 !.w.upd_detailed = join_lines(errors),
                 !.w.error_text = join_lines(errors), !.pc = "finally"]
  ELSE [c EXCEPT !.w.upd_operationState = "COMPLETED",
                 !.w.nslcmop_operation_state = "COMPLETED",
                 !.w.upd_detailed = "done",
                 !.nsr.deployed = "full", !.nsr.RO_nsd_id = TheRONsdId,
                 !.nsr.RO_vnfd_id = TheROVnfdId, !.pc = "finally"]

I_Joined(i, kdu, n2vc, order, dbok) ==
  LET outcomes == [t \in task_instantiation_list |->
                     CASE t = task_kdu  -> kdu
                       [] t = task_n2vc -> n2vc
                       [] t = task_ro   -> task_ro_outcome(wf[i].ns_status)]
  IN /\ wf[i].pc = "join"
     /\ Step(i, instantiate_joined([Here(i) EXCEPT !.w.outcomes = outcomes],
                                   error_text_list(outcomes, order, wf[i].ns_status)), dbok)

\* --------------------------------------------------------------- terminate
\* "; ".join(failed_detail)
RECURSIVE join_details(_)
join_details(failed_detail) ==
  IF failed_detail = << >> THEN ""
  ELSE IF Len(failed_detail) = 1 THEN failed_detail[1]
  ELSE failed_detail[1] \o "; " \o join_details(Tail(failed_detail))

\* the end of the try block of terminate: the collected failures decide
terminate_end(c) ==
  IF c.w.failed_detail # << >>
  THEN [c EXCEPT !.w.ok = "false", !.w.upd_operationState = "FAILED",
                 !.w.nslcmop_operation_state = "FAILED",
                 !.w.upd_detailed = join_details(c.w.failed_detail),
                 !.w.error_text = join_details(c.w.failed_detail), !.pc = "finally"]
  ELSE [c EXCEPT !.w.ok = "true", !.w.upd_nsState = "NOT_INSTANTIATED",
                 !.w.upd_operationState = "COMPLETED",
                 !.w.nslcmop_operation_state = "COMPLETED",
                 !.w.upd_detailed = "Done", !.pc = "finally"]

\* an ROClientException that is no 404 while item is deleted: it is noted in
\* failed_detail, and for the ns and the nsd RO_fail is set
ro_failed(c, item, outcome, sets_RO_fail) ==
  [c EXCEPT !.w.failed_detail =
               Append(@, item \o (IF outcome = "409" THEN " delete conflict" ELSE " delete error")),
            !.w.RO_fail = @ \/ sets_RO_fail]

\* the vnfd is deleted at RO unless an earlier deletion at RO failed
terminate_vnfd(c) ==
  IF ~c.w.RO_fail /\ c.nsr.RO_vnfd_id # None
  THEN [c EXCEPT !.calls = Append(@, Call("RO.delete_vnfd", c.w.nslcmop_id, c.nsr.RO_vnfd_id,
                                          None, None, FALSE, TRUE)),
                 !.pc = "t_vnfd"]
  ELSE terminate_end(c)

\* RO.delete("vnfd") returns or raises
terminate_vnfd_done(c, outcome) ==
  terminate_end(IF outcome \in {"ok", "404"} THEN [c EXCEPT !.w.upd_vnfd = TRUE]
                ELSE ro_failed(c, "RO_vnfd_id", outcome, FALSE))

\* the nsd is deleted at RO unless the deletion of the ns failed
terminate_nsd(c) ==
  IF ~c.w.RO_fail /\ c.nsr.RO_nsd_id # None
  THEN [c EXCEPT !.calls = Append(@, Call("RO.delete_nsd", c.w.nslcmop_id, c.nsr.RO_nsd_id,
                                          None, None, FALSE, TRUE)),
                 !.pc = "t_nsd"]
  ELSE terminate_vnfd(c)

\* RO.delete("nsd") returns or raises
terminate_nsd_done(c, outcome) ==
  terminate_vnfd(IF outcome \in {"ok", "404"} THEN [c EXCEPT !.w.upd_nsd = TRUE]
                 ELSE ro_failed(c, "RO_nsd_id", outcome, TRUE))

\* that handler taking the 404 for an error
ro_ns_not_found_fails(c) ==
  ro_failed(c, "RO_ns_id", "error", TRUE)

\* the handler of a 404 while the ns is deleted: the ids are cleared
ro_ns_not_found(c) ==
  [c EXCEPT !.w.upd_deployed = "cleared", !.w.upd_delete_action = "cleared"]

\* "if RO_delete_action:" the loop on RO.show starts
terminate_wait_deleted(c) ==
  IF c.w.RO_delete_action # None
  THEN [c EXCEPT !.w.detailed_status_old = None, !.w.polls = 0, !.pc = "t_poll"]
  ELSE terminate_nsd(c)

\* RO.show of the delete action returns ns_status or raises a 404
terminate_polled(c, ns_status) ==
  CASE ns_status = "ERROR"  -> terminate_nsd(ro_failed(c, "RO_ns_id", "error", TRUE))
    [] ns_status = "404"    -> terminate_nsd(ro_ns_not_found(c))
    [] ns_status = "ACTIVE" -> terminate_nsd(ro_ns_not_found(c))
    [] ns_status = "BUILD"  ->
         IF c.w.polls + 1 >= MaxPolls
         THEN terminate_nsd(ro_failed(c, "RO_ns_id", "error", TRUE))
         ELSE LET w == [c.w EXCEPT !.upd_detailed = "Waiting ns deleted from VIM",
                                   !.detailed_status_old = "Waiting ns deleted from VIM",
                                   !.polls = @ + 1]
              IN IF c.w.detailed_status_old = None
                 THEN [c EXCEPT !.w = w, !.nsr = update_nsr_running(c.nsr, w),
                                !.lcmop = update_nslcmop(c.lcmop, w)]
                 ELSE [c EXCEPT !.w = w]

\* RO.delete("ns") returns the delete action or raises
terminate_deleted(c, outcome) ==
  CASE outcome = "ok" ->
         terminate_wait_deleted([c EXCEPT !.w.RO_delete_action = "act1",
                                          !.w.upd_delete_action = "act1",
                                          !.w.upd_deployed = "cleared"])
    [] outcome = "404" -> terminate_nsd(ro_ns_not_found(c))
    [] OTHER -> terminate_nsd(ro_failed(c, "RO_ns_id", outcome, TRUE))

\* the deletion part of terminate: the task that deletes the execution
\* environments is created, then the ns is deleted at RO
terminate_delete(c) ==
  LET w0 == [c.w EXCEPT !.pending_tasks = TRUE, !.task_delete_ee = "running",
                        !.RO_delete_action = c.nsr.RO_delete_action]
  IN IF c.nsr.deployed = "full"
     THEN LET w == [w0 EXCEPT !.upd_any = TRUE, !.upd_detailed = "Deleting ns from VIM"]
          IN Ctx(w, update_nsr_running(c.nsr, w), update_nslcmop(c.lcmop, w),
                 Append(c.calls, Call("RO.delete", w.nslcmop_id, TheRONsrId, None, None, FALSE, TRUE)),
                 "t_delete")
     ELSE terminate_wait_deleted([c EXCEPT !.w = w0])

\* _terminate_action for a descriptor with one terminate-config-primitive
terminate_action(c) ==
  LET o == c.w.nslcmop_id
      \* _add_suboperation(db_nslcmop, nslcmop_id, vnf_index, vdu_id, vdu_count_index,
      \*                   vdu_name, primitive, mapped_primitive_params)
      r == add_suboperation(c.w.db_nslcmop, c.lcmop.led, o, TheVnfIndex, None, None,
                            None, ThePrimitive, PrimitiveParams(o),
                            None, None, None, None)
  IN Ctx([c.w EXCEPT !.db_nslcmop = r.mem], c.nsr, [c.lcmop EXCEPT !.led = r.stored],
         Append(c.calls, Call("exec_primitive", o, None, ThePrimitive, PrimitiveParams(o), FALSE, TRUE)),
         "t_action")

terminate_body(c) ==
  IF c.pc = "finally" THEN c
  ELSE IF c.nsr.nsState_admin = "NOT_INSTANTIATED" THEN [c EXCEPT !.pc = "finally"]
  ELSE IF Variant(c.w.nslcmop_id) = "prim" THEN terminate_action(c)
  ELSE terminate_delete(c)

T_Start(i, loadfail, dbok) ==
  /\ AtWait(i, "terminate")
  /\ Step(i, terminate_body(Started(i, "TERMINATING", "TERMINATING", loadfail)), dbok)

\* n2vc.exec_primitive of _terminate_action returns or raises
T_ActionDone(i, success, dbok) ==
  /\ wf[i].pc = "t_action"
  /\ Step(i, IF success THEN terminate_delete(Here(i)) ELSE Raise(Here(i), "LcmException"), dbok)

\* the context with which invocation i resumes when RO has answered its
\* request about item; the answers other than BUILD are kept in ro_answers
Answered(i, item, answer) ==
  IF answer = "BUILD"
  THEN IF wf[i].polls + 1 >= MaxPolls
       THEN [Here(i) EXCEPT !.w.ro_answers = Append(@, << item, "timeout" >>)]
       ELSE Here(i)
  ELSE [Here(i) EXCEPT !.w.ro_answers = Append(@, << item, answer >>)]

T_DeleteDone(i, outcome, dbok) ==
  /\ wf[i].pc = "t_delete"
  /\ Step(i, terminate_deleted(Answered(i, "ns", outcome), outcome), dbok)

T_Polled(i, ns_status, dbok) ==
  /\ wf[i].pc = "t_poll"
  /\ Step(i, terminate_polled(Answered(i, "action", ns_status), ns_status), dbok)

T_NsdDone(i, outcome, dbok) ==
  /\ wf[i].pc = "t_nsd"
  /\ Step(i, terminate_nsd_done(Answered(i, "nsd", outcome), outcome), dbok)

T_VnfdDone(i, outcome, dbok) ==
  /\ wf[i].pc = "t_vnfd"
  /\ Step(i, terminate_vnfd_done(Answered(i, "vnfd", outcome), outcome), dbok)


\* ------------------------------------------------------------------ scale
\* the end of the try block of scale
scale_complete(c) ==
  [c EXCEPT !.w.upd_operationState = "COMPLETED",
            !.w.nslcmop_operation_state = "COMPLETED",
            !.w.upd_detailed = "done", !.pc = "finally"]

\* _ns_execute_primitive finds the charm of a VNF: the deployed VCA list holds
\* the charm of member-vnf-index "1"
charm_deployed(nsr, member_vnf_index) ==
  nsr.deployed \in {"full", "cleared"} /\ member_vnf_index = TheVnfIndex

\* What scale does with the answer r of _check_or_add_scale_suboperation for
\* the arguments vnf_index, a2, a3 of the sub-operation: the index of the
\* checkpoint and the arguments to run with, the caller's when the
\* sub-operation is new and the registered ones when it is a reintent
sub_operation(r, vnf_index, a2, a3) ==
  IF r.ret = SUBOPERATION_STATUS_NEW
  THEN [op_index |-> Len(OpList(r.mem)) - 1, vnf_index |-> vnf_index,
        a2 |-> a2, a3 |-> a3, resumed |-> FALSE]
  ELSE IF r.ret = SUBOPERATION_STATUS_SKIP
  THEN [op_index |-> r.ret, vnf_index |-> vnf_index, a2 |-> a2, a3 |-> a3, resumed |-> FALSE]
  ELSE [op_index |-> r.ret, vnf_index |-> OpList(r.mem)[r.ret + 1].member_vnf_index,
        a2 |-> a2, a3 |-> a3, resumed |-> TRUE]

\* the registered primitive and parameters of a reintent
registered_primitive(r, s) ==
  IF s.resumed
  THEN [s EXCEPT !.a2 = OpList(r.mem)[r.ret + 1].primitive,
                 !.a3 = OpList(r.mem)[r.ret + 1].primitive_params]
  ELSE s

\* the registered RO arguments of a reintent
registered_RO(r, s) ==
  IF s.resumed
  THEN [s EXCEPT !.a2 = OpList(r.mem)[r.ret + 1].RO_nsr_id,
                 !.a3 = OpList(r.mem)[r.ret + 1].RO_scaling_info]
  ELSE s

\* the context after the ledger call
checked(c, r) == [c EXCEPT !.w.db_nslcmop = r.mem, !.lcmop.led = r.stored]

\* A scaling-config-action after its check: skipped, or _ns_execute_primitive
\* is called with s, which awaits n2vc.exec_primitive (position await_pc) when
\* it finds the charm and returns an error text and 'FAIL' when it does not
scale_primitive_run(c, skip, s, await_pc) ==
  IF skip THEN [c EXCEPT !.pc = "next"]
  ELSE IF charm_deployed(c.nsr, s.vnf_index)
  THEN [c EXCEPT !.w.op_index = s.op_index, !.w.vnf_index = s.vnf_index,
                 !.calls = Append(@, Call("exec_primitive", c.w.nslcmop_id, s.vnf_index,
                                          s.a2, s.a3, s.resumed, TRUE)),
                 !.pc = await_pc]
  ELSE [c EXCEPT !.w.op_index = s.op_index, !.w.vnf_index = s.vnf_index,
                 !.calls = Append(@, Call("exec_primitive", c.w.nslcmop_id, s.vnf_index,
                                          s.a2, s.a3, s.resumed, FALSE)),
                 !.lcmop.led = update_suboperation_status(@, s.op_index,
                                   "Error executing action", "FAIL"),
                 !.pc = "next"]

scale_primitive_checked(c, r, await_pc) ==
  scale_primitive_run(checked(c, r), r.ret = SUBOPERATION_STATUS_SKIP,
      registered_primitive(r, sub_operation(r, c.w.vnf_index, ThePrimitive,
                                            PrimitiveParams(c.w.nslcmop_id))),
      await_pc)

\* A pre-scale or post-scale scaling-config-action of scale, up to the await
\* of n2vc.exec_primitive (position await_pc) or, when nothing is awaited, to
\* the end of the action (position "next").  The check is called as
\* _check_or_add_scale_suboperation(db_nslcmop, nslcmop_id, vnf_index,
\*                                  vnf_config_primitive, primitive_params, tag)
scale_primitive(c, tag, await_pc) ==
  scale_primitive_checked(c,
      check_or_add_scale_suboperation(c.w.db_nslcmop, c.lcmop.led, c.w.nslcmop_id,
          c.w.vnf_index, ThePrimitive, PrimitiveParams(c.w.nslcmop_id), tag, None),
      await_pc)

\* _ns_execute_primitive returns after n2vc.exec_primitive: the output and
\* 'OK', or an error text and 'FAIL'; scale stores them in the checkpoint
scale_primitive_done(c, success) ==
  [c EXCEPT !.lcmop.led = update_suboperation_status(@, c.w.op_index,
                             IF success THEN "output" ELSE "Cannot execute action",
                             IF success THEN "OK" ELSE "FAIL"),
            !.pc = "next"]

\* the post-scale action is over
scale_post_end(d) == IF d.pc = "next" THEN scale_complete(d) ELSE d

\* scale from the end of the SCALE RO block: the NSR update and the
\* post-scale action
scale_post(c) ==
  scale_post_end(scale_primitive([c EXCEPT !.nsr = update_nsr_running(c.nsr, c.w)],
                                 "POST-SCALE", "s_post"))

\* RO_nsr_id = nsr_deployed["RO"]["nsr_id"]
RO_nsr_id_of(nsr) == IF nsr.deployed = "full" THEN TheRONsrId ELSE None

\* the SCALE RO block after its check: skipped, or RO.create_action is awaited
scale_ro_run(c, skip, s) ==
  IF skip THEN scale_post([c EXCEPT !.pc = "next"])
  ELSE [c EXCEPT !.w.op_index = s.op_index,
                 !.calls = Append(@, Call("RO.create_action", c.w.nslcmop_id, s.vnf_index,
                                          s.a2, s.a3, s.resumed, TRUE)),
                 !.pc = "s_ro_create"]

scale_ro_checked(c, r) ==
  scale_ro_run(checked(c, r), r.ret = SUBOPERATION_STATUS_SKIP,
      registered_RO(r, sub_operation(r, c.w.vnf_index, RO_nsr_id_of(c.nsr), ROScalingInfo(c.w.nslcmop_id))))

\* the SCALE RO block, up to the await of RO.create_action
scale_ro(c) ==
  scale_ro_checked(c,
      check_or_add_scale_suboperation(c.w.db_nslcmop, c.lcmop.led, c.w.vnf_index,
          None, None, "SCALE-RO", RO_nsr_id_of(c.nsr), ROScalingInfo(c.w.nslcmop_id)))

\* the pre-scale action is over
scale_pre_end(d) == IF d.pc = "next" THEN scale_ro(d) ELSE d

scale_limit_off_by_one(scaling_type, nb_scale_op) ==
  IF scaling_type = "SCALE_OUT" THEN nb_scale_op > max_instance_count
  ELSE nb_scale_op < min_instance_count

\* "if nb_scale_op >= max_instance_count" of a SCALE_OUT and
\* "if nb_scale_op <= min_instance_count" of a SCALE_IN
scale_limit_reached(scaling_type, nb_scale_op) ==
  IF scaling_type = "SCALE_OUT" THEN nb_scale_op >= max_instance_count
  ELSE nb_scale_op <= min_instance_count

\* nb_scale_op after the limit check
scale_count(scaling_type, nb_scale_op) ==
  IF scaling_type = "SCALE_OUT" THEN nb_scale_op + 1 ELSE nb_scale_op - 1

\* scale from the end of the wait to its first await
scale_body(c) ==
  IF c.pc = "finally" THEN c
  ELSE IF c.nsr.deployed \notin {"full", "cleared"}
  THEN Raise([c EXCEPT !.nsr = update_nsr_running(c.nsr, c.w)], "Exception")
  ELSE IF Variant(c.w.nslcmop_id) = "nodata"
  THEN Raise([c EXCEPT !.nsr = update_nsr_running(c.nsr, c.w)], "Exception")
  ELSE IF scale_limit_reached(ScalingType(c.w.nslcmop_id), c.nsr.nb_scale_op)
  THEN Raise([c EXCEPT !.nsr = update_nsr_running(c.nsr, c.w)], "reached the limit")
  ELSE scale_pre_end(scale_primitive([c EXCEPT !.nsr = update_nsr_running(c.nsr, c.w),
                                               !.w.vnf_index = TheVnfIndex,
                                               !.w.nb_scale_op =
                                                   scale_count(ScalingType(c.w.nslcmop_id),
                                                               c.nsr.nb_scale_op),
                                               !.w.upd_any = TRUE,
                                               !.w.upd_detailed = "executing pre-scale"],
                                     "PRE-SCALE", "s_pre"))

S_Start(i, loadfail, dbok) ==
  /\ AtWait(i, "scale")
  /\ Step(i, scale_body(Started(i, None, "SCALING", loadfail)), dbok)

S_PreDone(i, success, dbok) ==
  /\ wf[i].pc = "s_pre"
  /\ Step(i, scale_ro(scale_primitive_done([Here(i) EXCEPT !.w.pre_ok = success], success)), dbok)

S_PostDone(i, success, dbok) ==
  /\ wf[i].pc = "s_post"
  /\ Step(i, scale_complete(scale_primitive_done(Here(i), success)), dbok)

\* RO.create_action returns or raises; on return the polling loop starts
S_ROCreated(i, success, dbok) ==
  /\ wf[i].pc = "s_ro_create"
  /\ Step(i, IF success
             THEN [Here(i) EXCEPT !.w.upd_nb_scale_op = TRUE,
                                  !.w.detailed_status_old = None, !.w.polls = 0,
                                  !.pc = "s_ro_poll"]
             ELSE Raise(Here(i), "ROClientException"), dbok)

\* the end of one iteration of the polling loop with detailed_status: the
\* checkpoint and the nslcmop are written when the status text changed, then
\* the loop sleeps; the loop ends without break after MaxPolls iterations, and
\* then the call of _update_suboperation_status with five arguments raises
scale_poll_end(c, detailed_status, next_pc) ==
  [c EXCEPT !.lcmop.led = IF detailed_status # c.w.detailed_status_old
                          THEN update_suboperation_status(@, c.w.op_index, "COMPLETED",
                                                          detailed_status)
                          ELSE @,
            !.lcmop.detailed_status = detailed_status,
            !.w.upd_detailed = detailed_status,
            !.w.detailed_status_old = detailed_status,
            !.w.polls = @ + 1,
            !.w.exc = IF c.w.polls + 1 >= MaxPolls THEN "Exception" ELSE @,
            !.pc = IF c.w.polls + 1 >= MaxPolls THEN "finally" ELSE next_pc]

\* The turn of the loop after the action was found ACTIVE: ns_status is still
\* ACTIVE, scale_vnfr creates or deletes the vdur records of the VNFR unless
\* vnfr_scaled, and RO.show of the ns is awaited
scale_vnfr_once(d) ==
  IF d.pc = "s_ro_ip" THEN [d EXCEPT !.w.vnfr_scaled = TRUE] ELSE d

\* RO.show of the action returns: check_action_status gives ns_status
scale_polled(c, ns_status) ==
  CASE ns_status = "ERROR"  -> Raise(c, "ROClientException")
    [] ns_status = "BUILD"  -> scale_poll_end(c, "build", "s_ro_poll")
    [] ns_status = "ACTIVE" -> scale_vnfr_once(scale_poll_end(c, "active", "s_ro_ip"))

S_ROPoll(i, ns_status, dbok) ==
  /\ wf[i].pc = "s_ro_poll"
  /\ Step(i, scale_polled(Here(i), ns_status), dbok)

\* RO.show of the ns returns: the addresses are there ("ok": the loop breaks
\* and the checkpoint is completed), are not there yet, or RO.show raises
scale_ip(c, outcome) ==
  CASE outcome = "error"  -> Raise(c, "ROClientException")
    [] outcome = "nomgmt" -> scale_poll_end(c, "ip", "s_ro_ip")
    [] outcome = "ok" ->
         scale_post([c EXCEPT !.lcmop.led =
                        update_suboperation_status(@, c.w.op_index, "COMPLETED", "Done")])

S_ROIp(i, outcome, dbok) ==
  /\ wf[i].pc = "s_ro_ip"
  /\ Step(i, scale_ip(Here(i), outcome), dbok)

\* ----------------------------------------------------------------- action
\* action from the end of the wait to its first await
action_body(c) ==
  LET o == c.w.nslcmop_id
  IN IF c.pc = "finally" THEN c
     ELSE IF Variant(o) = "kdu"
     THEN IF c.nsr.deployed \in {"full", "cleared"}
          THEN [c EXCEPT !.calls = Append(@, Call("K8s.upgrade", o, None, None, None, FALSE, TRUE)),
                         !.pc = "a_kdu"]
          ELSE Raise(c, "LcmException")
     ELSE IF charm_deployed(c.nsr, TheVnfIndex)
          THEN [c EXCEPT !.calls = Append(@, Call("exec_primitive", o, TheVnfIndex, ThePrimitive,
                                                  PrimitiveParams(o), FALSE, TRUE)),
                         !.pc = "a_prim"]
          ELSE [c EXCEPT !.w.upd_operationState = "FAILED",
                         !.w.nslcmop_operation_state = "FAILED", !.pc = "finally"]

A_Start(i, loadfail, dbok) ==
  /\ AtWait(i, "action")
  /\ Step(i, action_body(Started(i, None, "RUNNING ACTION", loadfail)), dbok)

\* the upgrade of the KDU returns an output, returns nothing, or raises
action_kdu_done(c, outcome) ==
  CASE outcome = "error"  -> Raise(c, "Exception")
    [] outcome = "output" -> [c EXCEPT !.w.upd_operationState = "COMPLETED", !.pc = "finally"]
    [] outcome = "empty"  -> [c EXCEPT !.w.upd_operationState = "FAILED", !.pc = "finally"]

A_KduDone(i, outcome, dbok) ==
  /\ wf[i].pc = "a_kdu"
  /\ Step(i, action_kdu_done(Here(i), outcome), dbok)

\* _ns_execute_primitive returns with 'OK' or 'FAIL'
action_primitive_done(c, success) ==
  LET result == IF success THEN "COMPLETED" ELSE "FAILED"
  IN [c EXCEPT !.w.upd_operationState = result,
               !.w.nslcmop_operation_state = result, !.pc = "finally"]

A_PrimDone(i, success, dbok) ==
  /\ wf[i].pc = "a_prim"
  /\ Step(i, action_primitive_done(Here(i), success), dbok)

\* ------------------------------------------ the deployment-unit directory
\* One entry of db_nsr["_admin"]["deployed"]["VCA"]. null: the entry is
\* None; has_count: the entry has the key "vdu_count_index"
NullUnit == [null |-> TRUE, member_vnf_index |-> None, vdu_id |-> None, kdu_name |-> None,
             has_count |-> FALSE, vdu_count_index |-> 0]

\* vca_deployed.get("vdu_count_index", 0)
get_vdu_count_index(vca_deployed) ==
  IF vca_deployed.has_count THEN vca_deployed.vdu_count_index ELSE 0

\* the condition of the lookup loop without the comparison of vdu_count_index
vca_matches_any_count(vca_deployed, member_vnf_index, vdu_id, kdu_name, vdu_index) ==
  /\ ~vca_deployed.null
  /\ vca_deployed.member_vnf_index = member_vnf_index
  /\ vca_deployed.vdu_id = vdu_id
  /\ vca_deployed.kdu_name = kdu_name

\* the condition of the lookup loop of _deploy_n2vc for one entry
vca_matches(vca_deployed, member_vnf_index, vdu_id, kdu_name, vdu_index) ==
  /\ ~vca_deployed.null
  /\ vca_deployed.member_vnf_index = member_vnf_index
  /\ vca_deployed.vdu_id = vdu_id
  /\ vca_deployed.kdu_name = kdu_name
  /\ get_vdu_count_index(vca_deployed) = vdu_index

\* the for/else of _deploy_n2vc: the 0-based index of the first entry that
\* matches, or (not found) the index after the last entry
find_vca_index(vca_list, member_vnf_index, vdu_id, kdu_name, vdu_index) ==
  LET hits == { n \in 1..Len(vca_list) :
                  vca_matches(vca_list[n], member_vnf_index, vdu_id, kdu_name, vdu_index) }
  IN IF hits = {} THEN [found |-> FALSE, vca_index |-> (Len(vca_list) - 1) + 1]
     ELSE [found |-> TRUE, vca_index |-> (CHOOSE n \in hits : \A m \in hits : n <= m) - 1]

\* the entry created when none is found
new_vca_deployed(member_vnf_index, vdu_id, kdu_name, vdu_index) ==
  [null |-> FALSE, member_vnf_index |-> member_vnf_index, vdu_id |-> vdu_id,
   kdu_name |-> kdu_name, has_count |-> TRUE, vdu_count_index |-> vdu_index]

\* update_db_2("nsrs", nsr_id, {"_admin.deployed.VCA.<vca_index>": vca_deployed}):
\* the stored list with that position set (positions the store does not have
\* yet are filled with null)
set_stored_vca(stored, vca_index, vca_deployed) ==
  [n \in 1..(IF vca_index + 1 > Len(stored) THEN vca_index + 1 ELSE Len(stored)) |->
     IF n = vca_index + 1 THEN vca_deployed
     ELSE IF n <= Len(stored) THEN stored[n] ELSE NullUnit]

\* _deploy_n2vc up to the launch of the task: the directory in memory and in
\* the store, the index handed to instantiate_N2VC and whether it was created
deploy_n2vc(mem, stored, member_vnf_index, vdu_id, kdu_name, vdu_index) ==
  LET r == find_vca_index(mem, member_vnf_index, vdu_id, kdu_name, vdu_index)
      vca_deployed == new_vca_deployed(member_vnf_index, vdu_id, kdu_name, vdu_index)
  IN IF r.found
     THEN [mem |-> mem, stored |-> stored, vca_index |-> r.vca_index, created |-> FALSE]
     ELSE [mem |-> Append(mem, vca_deployed),
           stored |-> set_stored_vca(stored, r.vca_index, vca_deployed),
           vca_index |-> r.vca_index, created |-> TRUE]

\* the units instantiate() calls _deploy_n2vc for: VNF level, VDU level (one
\* per vdu_index of range(count)), KDU level and NS level
UnitKeys ==
  { [member_vnf_index |-> "1", vdu_id |-> None, kdu_name |-> None, vdu_index |-> 0],
    [member_vnf_index |-> "2", vdu_id |-> None, kdu_name |-> None, vdu_index |-> 0],
    [member_vnf_index |-> "1", vdu_id |-> "vdu1", kdu_name |-> None, vdu_index |-> 0],
    [member_vnf_index |-> "1", vdu_id |-> "vdu1", kdu_name |-> None, vdu_index |-> 1],
    [member_vnf_index |-> "1", vdu_id |-> None, kdu_name |-> "kdu1", vdu_index |-> 0],
    [member_vnf_index |-> None, vdu_id |-> None, kdu_name |-> None, vdu_index |-> 0] }

\* the entries a stored list can hold at the start: null, entries written by
\* _deploy_n2vc, and entries without "vdu_count_index"
StoredUnits ==
  {NullUnit}
    \cup { new_vca_deployed(k.member_vnf_index, k.vdu_id, k.kdu_name, k.vdu_index) : k \in UnitKeys }
    \cup { [new_vca_deployed(k.member_vnf_index, k.vdu_id, k.kdu_name, 0) EXCEPT !.has_count = FALSE] :
             k \in UnitKeys }

\* the lookup key of an entry
UnitKey(e) == << e.member_vnf_index, e.vdu_id, e.kdu_name, get_vdu_count_index(e) >>
NoDuplicateUnits(list) ==
  \A n, m \in 1..Len(list) :
     (n # m /\ ~list[n].null /\ ~list[m].null) => UnitKey(list[n]) # UnitKey(list[m])

StartLists ==
  { l \in UNION { [1..n -> StoredUnits] : n \in 0..MaxStartUnits } : NoDuplicateUnits(l) }

NoDirCall ==
  [kind |-> "none", vca_index |-> 0, created |-> FALSE, tick |-> 0,
   key |-> [member_vnf_index |-> None, vdu_id |-> None, kdu_name |-> None, vdu_index |-> 0]]

DirIdle ==
  /\ D_mem = << >>
  /\ D_db = << >>
  /\ D_call = NoDirCall

\* instantiate() calls _deploy_n2vc for one unit
D_Deploy(k) ==
  LET r == deploy_n2vc(D_mem, D_db, k.member_vnf_index, k.vdu_id, k.kdu_name, k.vdu_index)
  IN /\ Len(D_mem) < MaxUnits \/ ~r.created
     /\ D_mem' = r.mem
     /\ D_db' = r.stored
     /\ D_call' = [kind |-> "deploy", key |-> k, vca_index |-> r.vca_index, created |-> r.created,
                   tick |-> 1 - D_call.tick]
     /\ UNCHANGED notDirVars

\* instantiate() is entered again: db_nsr is read from the store
D_Reload ==
  /\ D_call.tick = 1
  /\ D_mem' = D_db
  /\ D_call' = [NoDirCall EXCEPT !.tick = 0]
  /\ D_db' = D_db
  /\ UNCHANGED notDirVars

\* ------------------------------------------------- one instantiate_N2VC task
\* One entry of _admin.deployed.VCA as instantiate_N2VC and
\* _wait_dependent_n2vc read it
VcaEntry(member_vnf_index, vdu_id, ee_id, instantiation) ==
  [member_vnf_index |-> member_vnf_index, vdu_id |-> vdu_id, kdu_name |-> None,
   ee_id |-> ee_id, instantiation |-> instantiation]

\* timeout = 300 of _wait_dependent_n2vc
wait_timeout == 300
\* asyncio.sleep(10) of _wait_dependent_n2vc, in seconds
wait_sleep == 10

\* one pass of the for loop of _wait_dependent_n2vc from list position n on:
\* "return" (for/else), "wait" (break) or "failed" (raise LcmException)
RECURSIVE wait_pass(_, _, _)
wait_pass(vca_deployed_list, vca_index, n) ==
  IF n > Len(vca_deployed_list) THEN "return"
  ELSE LET my_vca == vca_deployed_list[vca_index + 1]
           vca_deployed == vca_deployed_list[n]
       IN IF n - 1 = vca_index THEN wait_pass(vca_deployed_list, vca_index, n + 1)
          ELSE IF Falsy(my_vca.member_vnf_index)
                    \/ vca_deployed.member_vnf_index = my_vca.member_vnf_index
               THEN IF Falsy(vca_deployed.instantiation) THEN "wait"
                    ELSE IF vca_deployed.instantiation = "FAILED" THEN "failed"
                    ELSE wait_pass(vca_deployed_list, vca_index, n + 1)
               ELSE wait_pass(vca_deployed_list, vca_index, n + 1)

\* the head of _wait_dependent_n2vc: a VDU or KDU unit returns at once
never_waits(my_vca) == ~Falsy(my_vca.vdu_id) \/ ~Falsy(my_vca.kdu_name)

\* update_db_2("nsrs", nsr_id, {db_update_entry + field: value})
set_vca_field(stored, vca_index, field, value) ==
  [stored EXCEPT ![vca_index + 1] = [@ EXCEPT ![field] = value]]

NoN2vcCall == [fn |-> "none", reuse_ee_id |-> None, tick |-> 0]
n2vc_call(fn, reuse_ee_id) == [fn |-> fn, reuse_ee_id |-> reuse_ee_id, tick |-> 1 - N_call.tick]

IdleTask ==
  [pc |-> "idle", vca_index |-> 0, is_proxy_charm |-> TRUE, primitives |-> 0,
   ee_id |-> None, timeout |-> wait_timeout, slept |-> 0, exc |-> None]

N2vcIdle ==
  /\ N_mem = << >>
  /\ N_db = << >>
  /\ N_task = IdleTask
  /\ N_call = NoN2vcCall

\* the except clause of instantiate_N2VC: FAILED is stored, the exception is
\* raised again
n2vc_except(exc) ==
  /\ N_db' = set_vca_field(N_db, N_task.vca_index, "instantiation", "FAILED")
  /\ N_task' = [N_task EXCEPT !.pc = "failed", !.exc = exc]

\* the loop over initial_config_primitive_list: the first exec_primitive is
\* awaited, or (empty list) COMPLETED is stored
n2vc_primitives ==
  IF N_task.primitives > 0
  THEN /\ N_task' = [N_task EXCEPT !.pc = "prim"]
       /\ N_call' = n2vc_call("exec_primitive", None)
       /\ N_db' = N_db
  ELSE /\ N_task' = [N_task EXCEPT !.pc = "done"]
       /\ N_call' = n2vc_call("none", None)
       /\ N_db' = set_vca_field(N_db, N_task.vca_index, "instantiation", "COMPLETED")

\* one turn of the while loop of _wait_dependent_n2vc with the list it reads
\* and the value of timeout
n2vc_wait_turn(vca_deployed_list, timeout_left, slept) ==
  IF timeout_left >= 0
  THEN LET r == wait_pass(vca_deployed_list, N_task.vca_index, 1)
       IN CASE r = "return" ->
                 /\ N_task' = [N_task EXCEPT !.pc = "prim", !.timeout = timeout_left, !.slept = slept]
                 /\ N_call' = n2vc_call("exec_primitive", None)
                 /\ N_db' = N_db
            [] r = "failed" ->
                 /\ N_call' = n2vc_call("none", None)
                 /\ N_db' = set_vca_field(N_db, N_task.vca_index, "instantiation", "FAILED")
                 /\ N_task' = [N_task EXCEPT !.pc = "failed", !.timeout = timeout_left, !.slept = slept,
                                             !.exc = "dependent charm/s has failed"]
            [] OTHER ->
                 /\ N_task' = [N_task EXCEPT !.pc = "sleep", !.timeout = timeout_left, !.slept = slept]
                 /\ N_call' = n2vc_call("sleep", None)
                 /\ N_db' = N_db
  ELSE /\ N_call' = n2vc_call("none", None)
       /\ N_db' = set_vca_field(N_db, N_task.vca_index, "instantiation", "FAILED")
       /\ N_task' = [N_task EXCEPT !.pc = "failed", !.timeout = timeout_left, !.slept = slept,
                                   !.exc = "dependent charm/s timeout"]

\* instantiate_N2VC from "store rw_mgmt_ip in deploy params" on
n2vc_configure ==
  IF N_task.primitives > 0 /\ ~never_waits(N_mem[N_task.vca_index + 1])
  THEN n2vc_wait_turn(N_mem, wait_timeout, 0)
  ELSE n2vc_primitives

\* the task starts: create_execution_environment for a proxy charm,
\* wait_vm_up_insert_key_ro for a native charm
N_Begin ==
  /\ N_task.pc = "start"
  /\ IF N_task.is_proxy_charm
     THEN /\ N_task' = [N_task EXCEPT !.pc = "ee", !.ee_id = N_mem[N_task.vca_index + 1].ee_id]
          /\ N_call' = n2vc_call("create_execution_environment", N_mem[N_task.vca_index + 1].ee_id)
     ELSE /\ N_task' = [N_task EXCEPT !.pc = "vm_native", !.ee_id = N_mem[N_task.vca_index + 1].ee_id]
          /\ N_call' = n2vc_call("wait_vm_up_insert_key_ro", None)
  /\ UNCHANGED << N_mem, N_db, notN2vcVars >>

\* wait_vm_up_insert_key_ro returned for a native charm:
\* register_execution_environment is called
N_VmUpNative(ok) ==
  /\ N_task.pc = "vm_native"
  /\ IF ok
     THEN /\ N_task' = [N_task EXCEPT !.pc = "ee"]
          /\ N_call' = n2vc_call("register_execution_environment", None)
          /\ N_db' = N_db
     ELSE /\ n2vc_except("Waiting to VM being up and getting IP address")
          /\ N_call' = n2vc_call("none", None)
  /\ UNCHANGED << N_mem, notN2vcVars >>

\* create_/register_execution_environment returned ee_id: model, application
\* and ee_id are stored, install_configuration_sw is called
N_EEDone(ok, ee_id) ==
  /\ N_task.pc = "ee"
  /\ IF ok
     THEN /\ N_task' = [N_task EXCEPT !.pc = "install", !.ee_id = ee_id]
          /\ N_db' = set_vca_field(N_db, N_task.vca_index, "ee_id", ee_id)
          /\ N_call' = n2vc_call("install_configuration_sw", None)
     ELSE /\ n2vc_except("create or register execution environment")
          /\ N_call' = n2vc_call("none", None)
  /\ UNCHANGED << N_mem, notN2vcVars >>

\* install_configuration_sw returned: a proxy charm of a VNF, VDU or KDU
\* waits for the VM, the others go on to the primitives
N_Installed(ok) ==
  /\ N_task.pc = "install"
  /\ IF ~ok
     THEN /\ n2vc_except("Install configuration Software")
          /\ N_call' = n2vc_call("none", None)
     ELSE IF N_task.is_proxy_charm /\ ~Falsy(N_mem[N_task.vca_index + 1].member_vnf_index)
     THEN /\ N_task' = [N_task EXCEPT !.pc = "vm_proxy"]
          /\ N_call' = n2vc_call("wait_vm_up_insert_key_ro", None)
          /\ N_db' = N_db
     ELSE n2vc_configure
  /\ UNCHANGED << N_mem, notN2vcVars >>

\* wait_vm_up_insert_key_ro returned for a proxy charm
N_VmUpProxy(ok) ==
  /\ N_task.pc = "vm_proxy"
  /\ IF ok
     THEN n2vc_configure
     ELSE /\ n2vc_except("Waiting to VM being up and getting IP address")
          /\ N_call' = n2vc_call("none", None)
  /\ UNCHANGED << N_mem, notN2vcVars >>

\* asyncio.sleep(10) of _wait_dependent_n2vc returned: timeout -= 1, the list
\* is read from the store and the while loop goes on
N_Woke ==
  /\ N_task.pc = "sleep"
  /\ n2vc_wait_turn(N_db, N_task.timeout - 1, N_task.slept + wait_sleep)
  /\ UNCHANGED << N_mem, notN2vcVars >>

\* exec_primitive returned: the next primitive, or COMPLETED is stored
N_PrimDone(ok) ==
  /\ N_task.pc = "prim"
  /\ IF ~ok
     THEN /\ n2vc_except("execute primitive")
          /\ N_call' = n2vc_call("none", None)
     ELSE IF N_task.primitives > 1
     THEN /\ N_task' = [N_task EXCEPT !.primitives = @ - 1]
          /\ N_call' = n2vc_call("exec_primitive", None)
          /\ N_db' = N_db
     ELSE /\ N_task' = [N_task EXCEPT !.pc = "done", !.primitives = 0]
          /\ N_call' = n2vc_call("none", None)
          /\ N_db' = set_vca_field(N_db, N_task.vca_index, "instantiation", "COMPLETED")
  /\ UNCHANGED << N_mem, notN2vcVars >>

\* the instantiate_N2VC task of another unit ends: it stores COMPLETED or
\* FAILED in its own entry (once: the entry still is as instantiate() read it)
N_OtherEnds(vca_index, instantiation) ==
  /\ N_task.pc \notin {"idle", "done", "failed"}
  /\ vca_index < Len(N_db) /\ vca_index # N_task.vca_index
  /\ N_db[vca_index + 1] = N_mem[vca_index + 1]
  /\ N_db[vca_index + 1].instantiation # instantiation
  /\ N_db' = set_vca_field(N_db, vca_index, "instantiation", instantiation)
  /\ UNCHANGED << N_mem, N_task, N_call, notN2vcVars >>

\* the units of the instance: the NS charm, the charm of VNF "1" and the charm
\* of its VDU "vdu1"
N2vcUnits == { << None, None >>, << "1", None >>, << "1", "vdu1" >> }

\* what an entry holds when instantiate() is entered: nothing yet, or the ee_id
\* and instantiation an earlier instantiate_N2VC stored
EntryStates == { << None, None >>, << "ee1", "COMPLETED" >>, << "ee1", "FAILED" >>, << "ee1", None >> }

N2vcStartLists ==
  { l \in [1..Cardinality(N2vcUnits) ->
             { VcaEntry(u[1], u[2], s[1], s[2]) : u \in N2vcUnits, s \in EntryStates }] :
      \A n, m \in 1..Cardinality(N2vcUnits) :
         n # m => << l[n].member_vnf_index, l[n].vdu_id >> # << l[m].member_vnf_index, l[m].vdu_id >> }

\* the ee_id N2VC returns
EeIds == {"ee1"}

\* ------------------------------------------------------ the deploy_kdus task
KduNames == {"kdu1", "kdu2", "kdu3"}

\* the kdur entries of the vnfrs in the order deploy_kdus visits them; usable:
\* the kdur has a helm-chart or juju-bundle and its cluster is found
KdurLists ==
  { l \in [1..Cardinality(KduNames) -> [kdu_name : KduNames, usable : BOOLEAN]] :
      /\ l[1].kdu_name = "kdu1" /\ l[2].kdu_name = "kdu2" /\ l[3].kdu_name = "kdu3" }

\* k8s_instace_info as deploy_kdus stores it before the install
k8s_instace_info(kdur) ==
  [kdu_name |-> kdur.kdu_name, kdu_instance |-> None,
   detailed_status |-> IF kdur.usable THEN None ELSE "kdu type is neither helm-chart not juju-bundle"]

IdleKduTask == [pc |-> "idle", pending_tasks |-> << >>, pending_list |-> {}, upd |-> << >>]

KduIdle ==
  /\ K_db = << >>
  /\ K_task = IdleKduTask
  /\ K_installs = [k \in KduNames |-> 0]
  /\ K_kdurs = [n \in 1..Cardinality(KduNames) |->
                  [kdu_name |-> "kdu" \o ToString(n), usable |-> TRUE]]

\* db_nsr_update["_admin.deployed.K8s.<index>"] = k8s_instace_info
set_k8s(stored, index, info) ==
  IF index + 1 > Len(stored) THEN Append(stored, info)
  ELSE [stored EXCEPT ![index + 1] = info]

\* the loop of deploy_kdus over the kdurs from position n on: the stored list
\* and, per launched install, the kdu and the index of its entry
RECURSIVE kdu_loop(_, _, _, _, _)
kdu_loop(kdurs, n, index, stored, pending_tasks) ==
  IF n > Len(kdurs) THEN [stored |-> stored, pending_tasks |-> pending_tasks]
  ELSE LET stored1 == set_k8s(stored, index, k8s_instace_info(kdurs[n]))
       IN IF ~kdurs[n].usable
          THEN kdu_loop(kdurs, n + 1, index, stored1, pending_tasks)
          ELSE kdu_loop(kdurs, n + 1, index + 1, stored1,
                        Append(pending_tasks, [kdu_name |-> kdurs[n].kdu_name, index |-> index]))

\* what the task keeps in db_nsr_update for the entry at index: the exception
\* as detailed-status, or the result as kdu-instance
kdu_update(task, ok) ==
  [index |-> task.index, field |-> IF ok THEN "kdu_instance" ELSE "detailed_status",
   value |-> IF ok THEN "instance-" \o task.kdu_name ELSE "K8sException"]

\* update_db_2("nsrs", nsr_id, db_nsr_update) of the finally clause
kdu_finally(stored, upd) ==
  [n \in 1..Len(stored) |->
     LET mine == { m \in 1..Len(upd) : upd[m].index = n - 1 }
     IN IF mine = {} THEN stored[n]
        ELSE LET u == upd[CHOOSE m \in mine : TRUE]
             IN [stored[n] EXCEPT ![u.field] = u.value]]

\* instantiate() launches deploy_kdus: _admin.deployed.K8s is set to [], an
\* entry is stored for every kdur and the install of every usable one is
\* requested; with nothing to install the task returns
K_Start ==
  /\ K_task.pc \in {"idle", "done", "failed"}
  /\ \A k \in KduNames : K_installs[k] < MaxKduRuns
  /\ LET r == kdu_loop(K_kdurs, 1, 0, << >>, << >>)
         launched == { r.pending_tasks[m].kdu_name : m \in 1..Len(r.pending_tasks) }
     IN /\ K_db' = r.stored
        /\ K_installs' = [k \in KduNames |-> IF k \in launched THEN K_installs[k] + 1 ELSE K_installs[k]]
        /\ K_task' = IF Len(r.pending_tasks) = 0
                     THEN [IdleKduTask EXCEPT !.pc = "done"]
                     ELSE [pc |-> "wait", pending_tasks |-> r.pending_tasks,
                           pending_list |-> 1..Len(r.pending_tasks), upd |-> << >>]
  /\ UNCHANGED << K_kdurs, notKduVars >>

\* asyncio.wait returns with one install done: its result or exception goes
\* to db_nsr_update; after the last one the finally clause stores db_nsr_update
K_Done(t, ok) ==
  /\ K_task.pc = "wait"
  /\ t + 1 \in K_task.pending_list
  /\ LET upd == Append(K_task.upd, kdu_update(K_task.pending_tasks[t + 1], ok))
         pending_list == K_task.pending_list \ {t + 1}
     IN IF pending_list = {}
        THEN /\ K_db' = kdu_finally(K_db, upd)
             /\ K_task' = [IdleKduTask EXCEPT !.pc = "done"]
        ELSE /\ K_db' = K_db
             /\ K_task' = [K_task EXCEPT !.pending_list = pending_list, !.upd = upd]
  /\ UNCHANGED << K_installs, K_kdurs, notKduVars >>

\* asyncio.wait returns with nothing done after 30 minutes: pending_tasks(task)
\* raises TypeError, LcmException is raised and the finally clause stores
\* db_nsr_update
K_Timeout ==
  /\ K_task.pc = "wait"
  /\ K_task.pending_list # {}
  /\ K_db' = kdu_finally(K_db, K_task.upd)
  /\ K_task' = [IdleKduTask EXCEPT !.pc = "failed"]
  /\ UNCHANGED << K_installs, K_kdurs, notKduVars >>

\* ------------------------------------------------- the convergence loops
\* the loops that poll the orchestrator: instantiate_RO (ns ready), terminate
\* (ns deleted) and scale (scale action complete, then ns ready)
LoopKinds == {"instantiate_RO", "terminate", "scale"}

\* ns_status_info of a poll
StatusInfos == {"info1", "info2"}

\* delete_timeout = 20 * 60 of terminate
delete_timeout == 20 * 60
\* deployment_timeout = 1 * 3600 of scale
deployment_timeout == 1 * 3600
\* asyncio.sleep(5) of the three loops, in seconds
poll_sleep == 5

mgmt_ip_text == "Waiting for management IP address reported by the VIM. Updating VNFRs"

\* step / detailed_status set before the loop
loop_step(kind) ==
  CASE kind = "instantiate_RO" -> "Waiting VIM to deploy ns"
    [] kind = "terminate" -> "Waiting ns deleted from VIM"
    [] OTHER -> "Waiting RO_task_id to complete the scale action."

\* the locals of a loop at its first poll. timer: the seconds since
\* start_deploy (instantiate_RO), delete_timeout (terminate) or
\* deployment_timeout (scale)
loop_start(kind) ==
  [kind |-> kind, pc |-> "show",
   timer |-> CASE kind = "instantiate_RO" -> 0
               [] kind = "terminate" -> delete_timeout
               [] OTHER -> deployment_timeout,
   step |-> loop_step(kind), detailed_status |-> loop_step(kind), detailed_status_old |-> None,
   RO_task_done |-> FALSE, wrote |-> FALSE, exc |-> None]

IdleLoop == [loop_start("terminate") EXCEPT !.pc = "idle"]
NoWrite == [text |-> None, tick |-> 0]

LoopIdle ==
  /\ P_loop = IdleLoop
  /\ P_write = NoWrite

\* the test that guards the write of the status text: always true
status_changed_always(detailed_status, detailed_status_old) == TRUE

\* the test that guards the write of the status text
status_changed(detailed_status, detailed_status_old) == detailed_status # detailed_status_old

\* the end of a turn that goes on polling: the text is written when it
\* changed, then the loop sleeps
loop_turn_end(l, step, detailed_status) ==
  LET changed == status_changed(detailed_status, l.detailed_status_old)
  IN /\ P_loop' = [l EXCEPT !.pc = "sleep", !.step = step, !.detailed_status = detailed_status,
                           !.detailed_status_old = IF changed THEN detailed_status ELSE @,
                           !.wrote = changed]
     /\ P_write' = IF changed THEN [text |-> detailed_status, tick |-> 1 - P_write.tick] ELSE P_write

loop_raise(l, exc) ==
  /\ P_loop' = [l EXCEPT !.pc = "raised", !.exc = exc, !.wrote = FALSE]
  /\ P_write' = P_write

loop_break(l) ==
  /\ P_loop' = [l EXCEPT !.pc = "done", !.wrote = FALSE]
  /\ P_write' = P_write

\* RO.show returned and check_ns_status / check_action_status classified it;
\* mgmt_ip: ns_update_vnfr finds the management IP addresses
P_Poll(ns_status, ns_status_info, mgmt_ip) ==
  /\ P_loop.pc = "show"
  /\ CASE ns_status = "ERROR" -> loop_raise(P_loop, "ROClientException: " \o ns_status_info)
       [] ns_status = "BUILD" ->
            loop_turn_end(P_loop, P_loop.step, P_loop.step \o "; " \o ns_status_info)
       [] OTHER ->
            CASE P_loop.kind = "instantiate_RO" ->
                   IF mgmt_ip THEN loop_break([P_loop EXCEPT !.step = mgmt_ip_text,
                                                             !.detailed_status = mgmt_ip_text])
                   ELSE loop_turn_end(P_loop, mgmt_ip_text, mgmt_ip_text)
              [] P_loop.kind = "terminate" -> loop_break(P_loop)
              [] OTHER ->
                   loop_turn_end([P_loop EXCEPT !.RO_task_done = TRUE],
                                 "Waiting ns ready at RO", "Waiting ns ready at RO")
  /\ UNCHANGED notLoopVars

\* asyncio.sleep(5) returned: the loop condition is evaluated again; scale
\* counts deployment_timeout down and, once RO_task_done, awaits RO.show of the ns
P_Slept ==
  /\ P_loop.pc = "sleep"
  /\ CASE P_loop.kind = "instantiate_RO" ->
            LET l == [P_loop EXCEPT !.timer = @ + poll_sleep, !.wrote = FALSE]
            IN IF l.timer <= total_deploy_timeout
               THEN P_loop' = [l EXCEPT !.pc = "show"] /\ P_write' = P_write
               ELSE loop_raise(l, "ROClientException: Timeout waiting ns to be ready")
       [] P_loop.kind = "terminate" ->
            LET l == [P_loop EXCEPT !.timer = @ - poll_sleep, !.wrote = FALSE]
            IN IF l.timer > 0
               THEN P_loop' = [l EXCEPT !.pc = "show"] /\ P_write' = P_write
               ELSE loop_raise(l, "ROClientException: Timeout waiting ns deleted from VIM")
       [] OTHER ->
            LET l == [P_loop EXCEPT !.timer = @ - poll_sleep, !.wrote = FALSE]
            IN IF l.timer > 0
               THEN /\ P_loop' = IF l.RO_task_done
                                 THEN [l EXCEPT !.pc = "show_ns", !.step = mgmt_ip_text,
                                                !.detailed_status = mgmt_ip_text]
                                 ELSE [l EXCEPT !.pc = "show"]
                    /\ P_write' = P_write
               ELSE loop_raise(l, "TypeError: _update_suboperation_status() takes 5 positional arguments")
  /\ UNCHANGED notLoopVars

\* scale, RO_task_done: RO.show("ns") returned and ns_update_vnfr was applied
P_ShowNs(outcome) ==
  /\ P_loop.pc = "show_ns"
  /\ CASE outcome = "ok" -> loop_break(P_loop)
       [] outcome = "nomgmt" -> loop_turn_end(P_loop, P_loop.step, P_loop.detailed_status)
       [] OTHER -> loop_raise(P_loop, "ROClientException: error")
  /\ UNCHANGED notLoopVars

\* -------------------------------------------- instantiate_RO: the RO objects
\* member-vnf-index of the constituent-vnfd entries of the nsd, in order
constituent_vnfd == << "1", "2" >>
\* nsd["id"]
nsd_ref == "nsd"

\* "{}.{}.{}".format(nsr_id, RO_descriptor_number, ref[:23])
RO_osm_id(RO_descriptor_number, ref) == "nsr1." \o ToString(RO_descriptor_number) \o "." \o ref

\* RO.get_list(item, filter_by={"osm_id": osm_id})
get_list(ro, item, osm_id) == { o \in ro.objects : o.item = item /\ o.osm_id = osm_id }

\* "if vnfd_list:" / "if nsd_list:" taken as never true
found_at_RO_never(list) == FALSE

\* "if vnfd_list:" / "if nsd_list:"
found_at_RO(list) == list # {}

\* RO.create of a vnfd or nsd: the orchestrator holds one more object
ro_create(ro, item, osm_id) ==
  [ro EXCEPT !.objects = @ \cup {[item |-> item, osm_id |-> osm_id,
                                   uuid |-> item \o "-" \o ToString(ro.created + 1)]},
             !.created = @ + 1]

\* RO.create("ns", ...): a new ns in BUILD
ro_create_ns(ro) ==
  [ro EXCEPT !.ns = @ \cup {[uuid |-> "ns-" \o ToString(ro.created + 1), status |-> "BUILD"]},
             !.created = @ + 1]

NullVnfd == [null |-> TRUE, member_vnf_index |-> None, id |-> None]

\* the position of member_vnf_index in db_nsr[_admin][deployed][RO][vnfd];
\* when absent None is appended to the list in memory
vnfd_position(mem, member_vnf_index) ==
  LET hits == { k \in 1..Len(mem.vnfd) : mem.vnfd[k].member_vnf_index = member_vnf_index }
  IN IF hits # {}
     THEN [mem |-> mem, index |-> (CHOOSE k \in hits : \A m \in hits : k <= m) - 1]
     ELSE [mem |-> [mem EXCEPT !.vnfd = Append(@, NullVnfd)], index |-> Len(mem.vnfd)]

\* db_nsr_update["_admin.deployed.RO.vnfd.<index>"] = RO_update, in a list
set_vnfd(list, index, RO_update) ==
  IF index + 1 > Len(list) THEN Append(list, RO_update) ELSE [list EXCEPT ![index + 1] = RO_update]

NoRoCall == [fn |-> "none", item |-> None, osm_id |-> None, tick |-> 0]
ro_call(fn, item, osm_id) == [fn |-> fn, item |-> item, osm_id |-> osm_id, tick |-> 1 - R_call.tick]

IdleRoTask == [pc |-> "idle", n |-> 0, index |-> 0, RO_nsr_id |-> None, entries |-> 0]

RoIdle ==
  /\ R_ro = [objects |-> {}, ns |-> {}, created |-> 0]
  /\ R_db = [vnfd |-> << >>, nsd_id |-> None, nsr_id |-> None]
  /\ R_mem = [vnfd |-> << >>, nsr_id |-> None]
  /\ R_task = IdleRoTask
  /\ R_call = NoRoCall

\* an awaited RO request raises: instantiate_RO ends with the exception
ro_raise ==
  /\ R_task' = [R_task EXCEPT !.pc = "failed"]
  /\ R_call' = ro_call("none", None, None)
  /\ UNCHANGED << R_ro, R_db, R_mem >>

\* the head of the loop over constituent-vnfd for entry n, up to RO.get_list
ro_vnfd_begin(task, mem, n) ==
  LET p == vnfd_position(mem, constituent_vnfd[n])
  IN /\ R_mem' = p.mem
     /\ R_task' = [task EXCEPT !.pc = "vnfd_list", !.n = n, !.index = p.index]
     /\ R_call' = ro_call("get_list", "vnfd", RO_osm_id(n - 1, constituent_vnfd[n]))

\* RO_update is kept in memory and stored; then the next constituent-vnfd,
\* or RO.get_list of the nsd
ro_vnfd_done(uuid) ==
  LET RO_update == [null |-> FALSE, member_vnf_index |-> constituent_vnfd[R_task.n], id |-> uuid]
      mem == [R_mem EXCEPT !.vnfd = set_vnfd(@, R_task.index, RO_update)]
  IN /\ R_db' = [R_db EXCEPT !.vnfd = set_vnfd(@, R_task.index, RO_update)]
     /\ IF R_task.n < Len(constituent_vnfd)
        THEN ro_vnfd_begin(R_task, mem, R_task.n + 1)
        ELSE /\ R_mem' = mem
             /\ R_task' = [R_task EXCEPT !.pc = "nsd_list"]
             /\ R_call' = ro_call("get_list", "nsd", RO_osm_id(Len(constituent_vnfd), nsd_ref))

\* the nsd id is stored; then the ns: RO.show when db_nsr has an RO nsr_id,
\* RO.create otherwise
ro_nsd_done(uuid) ==
  /\ R_db' = [R_db EXCEPT !.nsd_id = uuid]
  /\ R_mem' = R_mem
  /\ IF R_mem.nsr_id # None
     THEN /\ R_task' = [R_task EXCEPT !.pc = "ns_show", !.RO_nsr_id = R_mem.nsr_id]
          /\ R_call' = ro_call("show", "ns", R_mem.nsr_id)
     ELSE /\ R_task' = [R_task EXCEPT !.pc = "ns_create", !.RO_nsr_id = None]
          /\ R_call' = ro_call("create", "ns", None)

\* instantiate() is entered and launches instantiate_RO with the db_nsr it read
R_Enter ==
  /\ R_task.pc \in {"idle", "done", "failed"}
  /\ R_task.entries < MaxEntries
  /\ ro_vnfd_begin([IdleRoTask EXCEPT !.entries = R_task.entries + 1],
                   [vnfd |-> R_db.vnfd, nsr_id |-> R_db.nsr_id], 1)
  /\ UNCHANGED << R_ro, R_db, notRoVars >>

\* RO.get_list("vnfd") returned
R_VnfdListed(ok) ==
  /\ R_task.pc = "vnfd_list"
  /\ IF ~ok THEN ro_raise
     ELSE LET vnfd_list == get_list(R_ro, "vnfd", R_call.osm_id)
          IN IF found_at_RO(vnfd_list)
             THEN ro_vnfd_done((CHOOSE o \in vnfd_list : TRUE).uuid) /\ R_ro' = R_ro
             ELSE /\ R_task' = [R_task EXCEPT !.pc = "vnfd_create"]
                  /\ R_call' = ro_call("create", "vnfd", R_call.osm_id)
                  /\ UNCHANGED << R_ro, R_db, R_mem >>
  /\ UNCHANGED notRoVars

\* RO.create("vnfd") returned
R_VnfdCreated(ok) ==
  /\ R_task.pc = "vnfd_create"
  /\ IF ~ok THEN ro_raise
     ELSE /\ R_ro' = ro_create(R_ro, "vnfd", R_call.osm_id)
          /\ ro_vnfd_done("vnfd-" \o ToString(R_ro.created + 1))
  /\ UNCHANGED notRoVars

\* RO.get_list("nsd") returned
R_NsdListed(ok) ==
  /\ R_task.pc = "nsd_list"
  /\ IF ~ok THEN ro_raise
     ELSE LET nsd_list == get_list(R_ro, "nsd", R_call.osm_id)
          IN IF found_at_RO(nsd_list)
             THEN ro_nsd_done((CHOOSE o \in nsd_list : TRUE).uuid) /\ R_ro' = R_ro
             ELSE /\ R_task' = [R_task EXCEPT !.pc = "nsd_create"]
                  /\ R_call' = ro_call("create", "nsd", R_call.osm_id)
                  /\ UNCHANGED << R_ro, R_db, R_mem >>
  /\ UNCHANGED notRoVars

\* RO.create("nsd") returned
R_NsdCreated(ok) ==
  /\ R_task.pc = "nsd_create"
  /\ IF ~ok THEN ro_raise
     ELSE /\ R_ro' = ro_create(R_ro, "nsd", R_call.osm_id)
          /\ ro_nsd_done("nsd-" \o ToString(R_ro.created + 1))
  /\ UNCHANGED notRoVars

\* RO.show("ns", RO_nsr_id) returned, or raised: 404 when the orchestrator
\* has no such ns, another error when ~ok
R_NsShown(ok) ==
  /\ R_task.pc = "ns_show"
  /\ LET found == { ns \in R_ro.ns : ns.uuid = R_task.RO_nsr_id }
     IN IF found = {}
        THEN /\ R_task' = [R_task EXCEPT !.pc = "ns_create", !.RO_nsr_id = None]
             /\ R_call' = ro_call("create", "ns", None)
             /\ UNCHANGED << R_ro, R_db, R_mem >>
        ELSE IF ~ok THEN ro_raise
        ELSE IF (CHOOSE ns \in found : TRUE).status = "ERROR"
        THEN /\ R_task' = [R_task EXCEPT !.pc = "ns_delete"]
             /\ R_call' = ro_call("delete", "ns", None)
             /\ UNCHANGED << R_ro, R_db, R_mem >>
        ELSE /\ R_task' = [R_task EXCEPT !.pc = "done"]
             /\ R_call' = ro_call("none", None, None)
             /\ UNCHANGED << R_ro, R_db, R_mem >>
  /\ UNCHANGED notRoVars

\* RO.delete("ns", RO_nsr_id) of the ns in ERROR returned
R_NsDeleted(ok) ==
  /\ R_task.pc = "ns_delete"
  /\ IF ~ok THEN ro_raise
     ELSE /\ R_ro' = [R_ro EXCEPT !.ns = { ns \in @ : ns.uuid # R_task.RO_nsr_id }]
          /\ R_task' = [R_task EXCEPT !.pc = "ns_create", !.RO_nsr_id = None]
          /\ R_call' = ro_call("create", "ns", None)
          /\ UNCHANGED << R_db, R_mem >>
  /\ UNCHANGED notRoVars

\* RO.create("ns") returned: the new RO nsr_id is stored
R_NsCreated(ok) ==
  /\ R_task.pc = "ns_create"
  /\ IF ~ok THEN ro_raise
     ELSE /\ R_ro' = ro_create_ns(R_ro)
          /\ R_db' = [R_db EXCEPT !.nsr_id = "ns-" \o ToString(R_ro.created + 1)]
          /\ R_task' = [R_task EXCEPT !.pc = "done", !.RO_nsr_id = "ns-" \o ToString(R_ro.created + 1)]
          /\ R_call' = ro_call("none", None, None)
          /\ R_mem' = R_mem
  /\ UNCHANGED notRoVars

\* the orchestrator: the ns becomes ACTIVE or ERROR, or is deleted ("gone")
R_NsChanges(ns_status) ==
  /\ R_ro.ns # {}
  /\ R_task.pc \in {"done", "failed"}
  /\ R_ro' = [R_ro EXCEPT !.ns = IF ns_status = "gone" THEN {}
                                  ELSE { [ns EXCEPT !.status = ns_status] : ns \in @ }]
  /\ R_ro'.ns # R_ro.ns
  /\ UNCHANGED << R_db, R_mem, R_task, R_call, notRoVars >>


\* ------------------------------------------- the primitive specification
\* _ns_execute_primitive(db_deployed, member_vnf_index, ..., primitive,
\* primitive_params, retries=0, retries_interval=30) and what action() does
\* with the pair it returns.
retries_interval == 30

\* the exceptions n2vc.exec_primitive raises and the outputs it returns
ExecErrors == {"e1", "e2"}
ExecOutputs == {"output1", "output2"}

\* the search of the vca_deployed record and of its ee_id: the record is
\* found with an ee_id ("found"), is not in the list, or has no ee_id
Lookups == {"found", "not deployed", "no environment"}

IdleExec ==
  [pc |-> "idle", retries |-> 0, given |-> 0, attempts |-> 0, waited |-> 0,
   succeeded |-> FALSE, output |-> None, detail |-> None, dbfail |-> FALSE]
NoLcmopUpdate == [operationState |-> None, detailed_status |-> None]
ExecIdle == E_task = IdleExec /\ E_lcmop = NoLcmopUpdate

SubIdle == DirIdle /\ N2vcIdle /\ KduIdle /\ LoopIdle /\ RoIdle /\ ExecIdle

\* "return <text>, 'FAIL'" and "return output, 'OK'"
exec_return(t, output, detail) ==
  [t EXCEPT !.pc = "returned", !.output = output, !.detail = detail]

\* the lookup is over: its LcmException is caught by the outer except clause
\* and returned as 'FAIL', else the loop is entered ("while retries >= 0") and
\* n2vc.exec_primitive is awaited; with retries below 0 the loop is skipped
\* and "return output, 'OK'" finds output unbound, which the outer except
\* clause returns as 'FAIL' too
exec_begin(t, lookup) ==
  IF lookup # "found"
  THEN exec_return(t, "Error executing action: " \o lookup, "FAIL")
  ELSE IF t.retries >= 0
  THEN [t EXCEPT !.pc = "exec", !.attempts = @ + 1]
  ELSE exec_return(t, "Error executing action: unbound", "FAIL")

\* the except clause of the loop with exception e: "retries -= 1", then the
\* sleep of retries_interval when "retries >= 0", else the return of 'FAIL'
exec_except(t, e) ==
  IF t.retries - 1 >= 0
  THEN [t EXCEPT !.retries = @ - 1, !.pc = "sleep"]
  ELSE exec_return([t EXCEPT !.retries = @ - 1], "Cannot execute action: " \o e, "FAIL")

action_result_always_completed(detail) == "COMPLETED"

\* "if detail == 'OK': result = 'COMPLETED' else: result = 'FAILED'" of action
action_result(detail) == IF detail = "OK" THEN "COMPLETED" ELSE "FAILED"

\* _ns_execute_primitive is called with retries
E_Enter(retries, lookup) ==
  /\ E_task.pc = "idle"
  /\ E_task' = exec_begin([E_task EXCEPT !.retries = retries, !.given = retries], lookup)
  /\ UNCHANGED << E_lcmop, notExecVars >>

\* n2vc.exec_primitive returns output: the loop breaks
E_ExecReturned(output) ==
  /\ E_task.pc = "exec"
  /\ E_task' = exec_return([E_task EXCEPT !.succeeded = TRUE], output, "OK")
  /\ UNCHANGED << E_lcmop, notExecVars >>

\* n2vc.exec_primitive raises e
E_ExecRaised(e) ==
  /\ E_task.pc = "exec"
  /\ E_task' = exec_except(E_task, e)
  /\ UNCHANGED << E_lcmop, notExecVars >>

\* asyncio.sleep(retries_interval) is over: the next turn of the loop
E_Slept ==
  /\ E_task.pc = "sleep"
  /\ E_task' = [E_task EXCEPT !.pc = "exec", !.attempts = @ + 1,
                              !.waited = @ + retries_interval]
  /\ UNCHANGED << E_lcmop, notExecVars >>

\* action receives the pair: it sets operationState and detailed-status of
\* db_nslcmop_update and returns; its finally block stores them, unless
\* update_db_2 raises DbException
E_ActionDone(dbok) ==
  /\ E_task.pc = "returned"
  /\ E_task' = [E_task EXCEPT !.pc = "done", !.dbfail = ~dbok]
  /\ E_lcmop' = IF dbok
                THEN [operationState |-> action_result(E_task.detail),
                      detailed_status |-> E_task.output]
                ELSE E_lcmop
  /\ UNCHANGED notExecVars

\* ------------------------------------------------- cancellation, the ending
\* the positions at which a coroutine is suspended inside its try block
AwaitPcs == {"wait", "join", "t_action", "t_delete", "t_poll", "t_nsd", "t_vnfd", "s_pre", "s_ro_create",
             "s_ro_poll", "s_ro_ip", "s_post", "a_kdu", "a_prim"}

\* the task is cancelled: asyncio.CancelledError is raised at the await
Cancel(i, dbok) ==
  /\ wf[i].pc \in AwaitPcs
  /\ Step(i, Raise([Here(i) EXCEPT !.w.cancelled = TRUE], "Operation was cancelled"), dbok)

\* msg.aiowrite returns; terminate then waits for its pending tasks, the
\* others call lcm_tasks.remove and end
Notify(i) ==
  LET w == wf[i]
      o == w.nslcmop_id
      pending == w.pending_tasks
  IN /\ w.pc = "notify"
     /\ msg' = Append(msg, [inv |-> i, nslcmop_id |-> o,
                            operationState |-> w.nslcmop_operation_state])
     /\ wf' = [wf EXCEPT ![i] = IF pending THEN [w EXCEPT !.pc = "pending"]
                                ELSE Ended(w, "done")]
     /\ lcm_tasks' = IF pending THEN lcm_tasks ELSE remove(lcm_tasks, i, o)
     /\ UNCHANGED << nsrs, nslcmops, calls, opShape, ledgerVars, subVars >>

\* the task of n2vc.delete_namespace ends while terminate waits for it
T_EEDone(i, success) ==
  /\ wf[i].pc = "pending"
  /\ wf[i].task_delete_ee = "running"
  /\ wf' = [wf EXCEPT ![i].task_delete_ee = IF success THEN "done" ELSE "raised"]
  /\ UNCHANGED << nsrs, nslcmops, lcm_tasks, msg, calls, opShape, ledgerVars, subVars >>

\* asyncio.wait(pending_tasks) of terminate returns: the tasks are done or
\* the hour is over
T_PendingDone(i) ==
  /\ wf[i].pc = "pending"
  /\ wf' = [wf EXCEPT ![i] = Ended(@, "done")]
  /\ lcm_tasks' = remove(lcm_tasks, i, wf[i].nslcmop_id)
  /\ UNCHANGED << nsrs, nslcmops, msg, calls, opShape, ledgerVars, subVars >>

\* how a deletion at RO ends: done, or ROClientException with this http_code
\* ("error": any other code)
ROOutcomes == {"ok", "404", "409", "error"}

\* ---------------------------------------------------------- specifications
LedgerIdle ==
  /\ L_rec = NoOpsRecord
  /\ L_stored = NoOpsRecord
  /\ L_call = NoCall
  /\ L_new = {}

Init ==
  /\ InitEngine
  /\ LedgerIdle
  /\ SubIdle

Next ==
  \/ \E i \in Invs, op \in Ops : Enter(i, op)
  \/ \E i \in Invs, loadfail \in LoadFails, prep_ok \in BOOLEAN, dbok \in BOOLEAN :
        I_Start(i, loadfail, prep_ok, dbok)
  \/ \E i \in Invs, ns_status \in {"ERROR", "BUILD", "ACTIVE"} : I_ROShow(i, ns_status)
  \/ \E i \in Invs, kdu \in KduOutcomes, n2vc \in N2vcOutcomes, order \in TaskOrders, dbok \in BOOLEAN :
        I_Joined(i, kdu, n2vc, order, dbok)
  \/ \E i \in Invs, loadfail \in LoadFails, dbok \in BOOLEAN : T_Start(i, loadfail, dbok)
  \/ \E i \in Invs, success \in BOOLEAN, dbok \in BOOLEAN : T_ActionDone(i, success, dbok)
  \/ \E i \in Invs, outcome \in ROOutcomes, dbok \in BOOLEAN : T_DeleteDone(i, outcome, dbok)
  \/ \E i \in Invs, ns_status \in {"ERROR", "BUILD", "ACTIVE", "404"}, dbok \in BOOLEAN :
        T_Polled(i, ns_status, dbok)
  \/ \E i \in Invs, outcome \in ROOutcomes, dbok \in BOOLEAN : T_NsdDone(i, outcome, dbok)
  \/ \E i \in Invs, outcome \in ROOutcomes, dbok \in BOOLEAN : T_VnfdDone(i, outcome, dbok)
  \/ \E i \in Invs, success \in BOOLEAN : T_EEDone(i, success)
  \/ \E i \in Invs : T_PendingDone(i)
  \/ \E i \in Invs, loadfail \in LoadFails, dbok \in BOOLEAN : S_Start(i, loadfail, dbok)
  \/ \E i \in Invs, success \in BOOLEAN, dbok \in BOOLEAN : S_PreDone(i, success, dbok)
  \/ \E i \in Invs, success \in BOOLEAN, dbok \in BOOLEAN : S_ROCreated(i, success, dbok)
  \/ \E i \in Invs, ns_status \in {"ERROR", "BUILD", "ACTIVE"}, dbok \in BOOLEAN :
        S_ROPoll(i, ns_status, dbok)
  \/ \E i \in Invs, outcome \in {"ok", "nomgmt", "error"}, dbok \in BOOLEAN :
        S_ROIp(i, outcome, dbok)
  \/ \E i \in Invs, success \in BOOLEAN, dbok \in BOOLEAN : S_PostDone(i, success, dbok)
  \/ \E i \in Invs, loadfail \in LoadFails, dbok \in BOOLEAN : A_Start(i, loadfail, dbok)
  \/ \E i \in Invs, outcome \in {"output", "empty", "error"}, dbok \in BOOLEAN :
        A_KduDone(i, outcome, dbok)
  \/ \E i \in Invs, success \in BOOLEAN, dbok \in BOOLEAN : A_PrimDone(i, success, dbok)
  \/ \E i \in Invs, dbok \in BOOLEAN : Cancel(i, dbok)
  \/ \E i \in Invs : Notify(i)

Spec == Init /\ [][Next]_vars

\* The ledger specification: the ledger functions applied to a record
EngineIdle ==
  /\ opShape = [o \in Ops |-> [kind |-> "scale", variant |-> "std"]]
  /\ wf = [i \in Invs |-> IdleWf]
  /\ nsrs = InitNsr(TRUE)
  /\ nslcmops = [o \in Ops |-> [operationState |-> "PROCESSING", detailed_status |-> None,
                                   led |-> NoOpsRecord]]
  /\ lcm_tasks = [owner |-> [o \in Ops |-> 0], order |-> << >>]
  /\ msg = << >>
  /\ calls = << >>

LedgerInit ==
  /\ InitLedger
  /\ EngineIdle
  /\ SubIdle

LedgerNext ==
  \/ \E key \in LedgerKeys : L_CheckOrAdd(key)
  \/ \E op_index \in 0..MaxLedger, st \in {"COMPLETED", "FAILED"} : L_UpdateStatus(op_index, st)
  \/ L_Reload

SpecLedger == LedgerInit /\ [][LedgerNext]_vars


\* The directory specification: _deploy_n2vc applied to a VCA list
DirInit ==
  /\ D_mem \in StartLists
  /\ D_db = D_mem
  /\ D_call = NoDirCall
  /\ N2vcIdle
  /\ KduIdle
  /\ LoopIdle
  /\ RoIdle
  /\ ExecIdle
  /\ LedgerIdle
  /\ EngineIdle

DirNext ==
  \/ \E k \in UnitKeys : D_Deploy(k)
  \/ D_Reload

SpecDir == DirInit /\ [][DirNext]_vars

\* The unit specification: one instantiate_N2VC task and the entries the
\* tasks of the other units store
N2vcInit ==
  /\ N_mem \in N2vcStartLists
  /\ N_db = N_mem
  /\ \E vca_index \in 0..(Cardinality(N2vcUnits) - 1), is_proxy_charm \in BOOLEAN, primitives \in 0..1 :
        /\ Falsy(N_mem[vca_index + 1].member_vnf_index) => primitives > 0
        /\ N_mem[vca_index + 1].instantiation # "COMPLETED"
        /\ \A n \in 1..Len(N_mem) :
              (n # vca_index + 1 /\ N_mem[n].instantiation = None) => N_mem[n].ee_id = None
        /\ N_task = [IdleTask EXCEPT !.pc = "start", !.vca_index = vca_index,
                                     !.is_proxy_charm = is_proxy_charm, !.primitives = primitives]
  /\ N_call = NoN2vcCall
  /\ DirIdle
  /\ KduIdle
  /\ LoopIdle
  /\ RoIdle
  /\ ExecIdle
  /\ LedgerIdle
  /\ EngineIdle

N2vcNext ==
  \/ N_Begin
  \/ \E ok \in BOOLEAN : N_VmUpNative(ok)
  \/ \E ok \in BOOLEAN, ee_id \in EeIds : N_EEDone(ok, ee_id)
  \/ \E ok \in BOOLEAN : N_Installed(ok)
  \/ \E ok \in BOOLEAN : N_VmUpProxy(ok)
  \/ N_Woke
  \/ \E ok \in BOOLEAN : N_PrimDone(ok)
  \/ \E vca_index \in 0..(Cardinality(N2vcUnits) - 1), instantiation \in {"COMPLETED", "FAILED"} :
        N_OtherEnds(vca_index, instantiation)

SpecN2VC == N2vcInit /\ [][N2vcNext]_vars

\* The KDU specification: deploy_kdus, run once per entry into instantiate()
KduInit ==
  /\ K_db = << >>
  /\ K_task = IdleKduTask
  /\ K_installs = [k \in KduNames |-> 0]
  /\ K_kdurs \in KdurLists
  /\ LoopIdle
  /\ RoIdle
  /\ DirIdle
  /\ N2vcIdle
  /\ ExecIdle
  /\ LedgerIdle
  /\ EngineIdle

KduNext ==
  \/ K_Start
  \/ \E index \in 0..(Cardinality(KduNames) - 1), ok \in BOOLEAN : K_Done(index, ok)
  \/ K_Timeout

SpecKdu == KduInit /\ [][KduNext]_vars

\* The loop specification: one convergence loop on the orchestrator, from its
\* first poll to its end
LoopInit ==
  /\ \E kind \in LoopKinds : P_loop = loop_start(kind)
  /\ P_write = NoWrite
  /\ DirIdle
  /\ N2vcIdle
  /\ KduIdle
  /\ RoIdle
  /\ ExecIdle
  /\ LedgerIdle
  /\ EngineIdle

LoopNext ==
  \/ \E ns_status \in {"ERROR", "BUILD", "ACTIVE"}, ns_status_info \in StatusInfos, mgmt_ip \in BOOLEAN :
        P_Poll(ns_status, ns_status_info, mgmt_ip)
  \/ \E outcome \in {"ok", "nomgmt", "error"} : P_ShowNs(outcome)
  \/ P_Slept

SpecLoop == LoopInit /\ [][LoopNext]_vars

\* The RO specification: instantiate_RO up to the creation of the ns, entered
\* again after it ended
RoInit ==
  /\ RoIdle
  /\ DirIdle
  /\ N2vcIdle
  /\ KduIdle
  /\ LoopIdle
  /\ ExecIdle
  /\ LedgerIdle
  /\ EngineIdle

RoNext ==
  \/ R_Enter
  \/ \E ok \in BOOLEAN : R_VnfdListed(ok)
  \/ \E ok \in BOOLEAN : R_VnfdCreated(ok)
  \/ \E ok \in BOOLEAN : R_NsdListed(ok)
  \/ \E ok \in BOOLEAN : R_NsdCreated(ok)
  \/ \E ok \in BOOLEAN : R_NsShown(ok)
  \/ \E ok \in BOOLEAN : R_NsDeleted(ok)
  \/ \E ok \in BOOLEAN : R_NsCreated(ok)
  \/ \E ns_status \in {"ACTIVE", "ERROR", "gone"} : R_NsChanges(ns_status)

SpecRO == RoInit /\ [][RoNext]_vars

\* The primitive specification: one call of _ns_execute_primitive by action
ExecInit ==
  /\ ExecIdle
  /\ DirIdle
  /\ N2vcIdle
  /\ KduIdle
  /\ LoopIdle
  /\ RoIdle
  /\ LedgerIdle
  /\ EngineIdle

ExecNext ==
  \/ \E retries \in (-1)..MaxRetries, lookup \in Lookups : E_Enter(retries, lookup)
  \/ \E output \in ExecOutputs : E_ExecReturned(output)
  \/ \E e \in ExecErrors : E_ExecRaised(e)
  \/ E_Slept
  \/ \E dbok \in BOOLEAN : E_ActionDone(dbok)

SpecExec == ExecInit /\ [][ExecNext]_vars
\* the key fields of a checkpoint and of a check_or_add call
CheckpointKey(op) ==
  IF op.lcmOperationType = "SCALE-RO"
  THEN << "RO", op.member_vnf_index, op.RO_nsr_id, op.RO_scaling_info >>
  ELSE << "PRIM", op.member_vnf_index, op.primitive, op.primitive_params, op.lcmOperationType >>
CallKey(key) ==
  IF key.operationType = "SCALE-RO"
  THEN << "RO", key.vnf_index, key.RO_nsr_id, key.RO_scaling_info >>
  ELSE << "PRIM", key.vnf_index, key.vnf_config_primitive, key.primitive_params, key.operationType >>

IsCheckStep == L_call'.tick # L_call.tick /\ L_call'.kind = "check"

C8_NewExactlyOnce ==
  [][ IsCheckStep =>
        /\ (L_call'.key \in L_new => L_call'.ret # SUBOPERATION_STATUS_NEW)
        /\ (L_call'.ret = SUBOPERATION_STATUS_NEW =>
              /\ Len(OpList(L_rec')) = Len(OpList(L_rec)) + 1
              /\ OpList(L_rec')[Len(OpList(L_rec'))].operationState = "PROCESSING") ]_vars


\* ------------------------------------------------------------------ claims
\* invocation i acquired the lock and its coroutine has ended
Returned(i) == wf[i].locked = "yes" /\ wf[i].pc \in {"done", "raised"}

\* invocation i has an entry in the task registry
Registered(i) == \E n \in 1..Len(lcm_tasks.order) : lcm_tasks.order[n] = i

\* the notifications invocation i has written
Notifications(i) == { n \in 1..Len(msg) : msg[n].inv = i }

\* C1: an invocation that acquired the lock has called lcm_tasks.remove for its
\* entry when it ends, on every exit path; no path leaves the entry registered
C1_RemovedOnEveryExit ==
  \A i \in Invs : Returned(i) => ~Registered(i)

\* C2: when lock_HA returns false the entry point returns at once: the step
\* changes neither the NSR nor the nslcmops, sends no request, registers
\* nothing and writes no notification, and the invocation does nothing later
C2_LockLostIsNoOp ==
  [][ \A i \in Invs :
        /\ (wf[i].pc = "idle" /\ wf'[i].locked = "no")
              => /\ wf'[i].pc = "done"
                 /\ nsrs' = nsrs
                 /\ nslcmops' = nslcmops
                 /\ calls' = calls
                 /\ msg' = msg
                 /\ lcm_tasks' = lcm_tasks
        /\ wf[i].locked = "no" => wf'[i] = wf[i] ]_vars

C2_Witness ==
  \E i, j \in Invs :
     /\ wf[i].locked = "no" /\ wf[i].pc = "done"
     /\ wf[j].locked = "yes" /\ wf[j].nslcmop_id = wf[i].nslcmop_id
     /\ wf[j].pc \in AwaitPcs \ {"wait"}

\* C3: while a workflow is past its wait and running, the current-operation
\* fields of the NSR name it: a workflow invoked later writes nothing to the
\* NSR before the earlier one has ended
C3_CurrentOperationNamesRunning ==
  \A j \in Invs :
     wf[j].pc \in AwaitPcs \ {"wait"} => nsrs.current_operation_admin = wf[j].nslcmop_id

\* C4: an invocation that acquired the lock and loaded its nslcmop has left
\* the operationState of the record terminal when it ends (here: whenever no
\* write of its finally block failed)
C4_TerminalWhenReturned ==
  \A i \in Invs :
     (Returned(i) /\ wf[i].loaded_lcmop /\ ~wf[i].dbfail)
        => nslcmops[wf[i].nslcmop_id].operationState \in Terminal

\* C5: an invocation writes its terminal notification exactly once, with the
\* operationState it stored, if it stored a terminal operationState in the
\* nslcmop, and writes none otherwise (here: whenever no write of its finally
\* block failed)
C5_NotifiedIffTerminalStored ==
  \A i \in Invs :
     (Returned(i) /\ ~wf[i].dbfail)
        => IF wf[i].wrote \in Terminal
           THEN /\ Cardinality(Notifications(i)) = 1
                /\ \A n \in Notifications(i) : msg[n].operationState = wf[i].wrote
           ELSE Notifications(i) = {}

\* C6: once the operationState of an nslcmop is terminal no step changes it
\* and no step sends a request for that operation
C6_TerminalIsFinal ==
  [][ \A o \in Ops :
        nslcmops[o].operationState \in Terminal
           => /\ nslcmops'[o].operationState = nslcmops[o].operationState
              /\ Len(calls') > Len(calls)
                    => ~(calls'[Len(calls')].op = o /\ calls'[Len(calls')].sent) ]_vars

\* C9: the ledger of an nslcmop never holds two checkpoints with the same
\* key fields
C9_NoDuplicateCheckpoints ==
  \A o \in Ops :
     \A m, n \in 1..Len(OpList(nslcmops[o].led)) :
        m # n => CheckpointKey(OpList(nslcmops[o].led)[m]) # CheckpointKey(OpList(nslcmops[o].led)[n])

\* C10: a primitive or RO action that scale runs again from a checkpoint
\* (reintent) is run with the arguments of an earlier, first execution for
\* the same operation
C10_ResumeUsesFirstArguments ==
  \A n \in 1..Len(calls) :
     calls[n].resumed
        => \E m \in 1..(n - 1) :
              /\ ~calls[m].resumed
              /\ calls[m].op = calls[n].op /\ calls[m].fn = calls[n].fn
              /\ calls[m].a1 = calls[n].a1 /\ calls[m].a2 = calls[n].a2
              /\ calls[m].a3 = calls[n].a3

\* the pre-scale primitive of operation o returned 'OK' in an invocation
\* other than i
PreScaleSucceeded(o, i) ==
  \E j \in Invs \ {i} : wf[j].nslcmop_id = o /\ wf[j].pre_ok

\* C11: a pre-scale primitive that ran successfully is not sent to the VCA
\* again by a later invocation of the same scale operation
C11_PreScaleRunsOnce ==
  [][ \A i \in Invs :
        (wf[i].pc = "wait" /\ wf'[i].pc = "s_pre")
           => ~PreScaleSucceeded(wf[i].nslcmop_id, i) ]_vars

\* C12: when the pre-scale primitive of a scale fails, the step that receives
\* the failure sends no request (RO.create_action is not called) and the
\* operation is left FAILED (here: whenever no write of the finally block
\* failed)
C12_FailedPreScaleStops ==
  [][ \A i \in Invs :
        (wf[i].pc = "s_pre" /\ wf'[i].pc # "s_pre" /\ ~wf'[i].pre_ok /\ ~wf'[i].dbfail)
           => /\ calls' = calls
              /\ nslcmops'[wf[i].nslcmop_id].operationState = "FAILED" ]_vars

\* the stored counter is at the limit of the direction of scale operation o
AtScaleLimit(o) ==
  \/ ScalingType(o) = "SCALE_OUT" /\ nsrs.nb_scale_op = max_instance_count
  \/ ScalingType(o) = "SCALE_IN" /\ nsrs.nb_scale_op = min_instance_count

\* C13: a scale whose counter is at the limit of its direction (SCALE_OUT at
\* max-instance-count, SCALE_IN at min-instance-count) sends no request, leaves
\* the stored nb-scale-op as it is and leaves the operation FAILED (here: when
\* it loaded the nslcmop and no write of the finally block failed); the stored
\* counter stays within the limits and is only ever set to the value that an
\* invocation computed after its limit check and RO.create_action
C13_ScaleLimit ==
  [][ /\ \A i \in Invs :
           (/\ wf[i].pc = "wait" /\ wf'[i].pc # "wait"
            /\ Kind(wf[i].nslcmop_id) = "scale"
            /\ AtScaleLimit(wf[i].nslcmop_id)
            /\ wf'[i].loaded_lcmop /\ ~wf'[i].dbfail)
              => /\ calls' = calls
                 /\ nsrs'.nb_scale_op = nsrs.nb_scale_op
                 /\ nslcmops'[wf[i].nslcmop_id].operationState = "FAILED"
      /\ nsrs'.nb_scale_op \in min_instance_count..max_instance_count
      /\ nsrs'.nb_scale_op # nsrs.nb_scale_op
            => \E i \in Invs : wf[i].upd_nb_scale_op /\ nsrs'.nb_scale_op = wf[i].nb_scale_op
    ]_vars

C13_Witness ==
  \E i \in Invs :
     /\ wf[i].pc = "done" /\ wf[i].locked = "yes"
     /\ Kind(wf[i].nslcmop_id) = "scale"
     /\ AtScaleLimit(wf[i].nslcmop_id)
     /\ nslcmops[wf[i].nslcmop_id].operationState = "FAILED"
     /\ nslcmops[wf[i].nslcmop_id].detailed_status = "reached the limit"
     /\ \A n \in 1..Len(calls) : calls[n].op # wf[i].nslcmop_id


\* the tasks the join of invocation i found timed out, cancelled or failed
FailedTasks(w) == { t \in task_instantiation_list : w.outcomes[t] # "done" }

\* the failure texts of those tasks, each led by the name of its task, in order s
FailureTexts(w, s) ==
  LET failed == SelectSeq(s, LAMBDA t : t \in FailedTasks(w))
  IN [n \in 1..Len(failed) |-> error_text_entry(failed[n], w.outcomes[failed[n]], w.ns_status)]

CleanDeployment(w) ==
  /\ w.outcomes # NoOutcomes
  /\ w.ro_build /\ w.ns_status = "ACTIVE"
  /\ \A t \in task_instantiation_list : w.outcomes[t] = "done"

C15_CleanInstantiate ==
  [][ \A i \in Invs :
        /\ (wf[i].pc = "join" /\ wf'[i].pc # "join" /\ CleanDeployment(wf'[i]) /\ ~wf'[i].dbfail)
              => /\ wf'[i].pc = "notify"
                 /\ nslcmops'[wf[i].nslcmop_id].operationState = "COMPLETED"
                 /\ nsrs'.nsState_admin = "INSTANTIATED"
                 /\ nsrs'.nsState = "READY"
                 /\ nsrs'.currentOperation = "IDLE"
                 /\ nsrs'.currentOperationID = None
                 /\ nsrs'.errorDescription = None
                 /\ nsrs'.errorDetail = None
        /\ (wf[i].pc = "notify" /\ wf'[i].pc # "notify" /\ CleanDeployment(wf[i]) /\ ~wf[i].dbfail)
              => /\ Cardinality({ n \in 1..Len(msg') : msg'[n].inv = i }) = 1
                 /\ msg'[Len(msg')] = [inv |-> i, nslcmop_id |-> wf[i].nslcmop_id,
                                       operationState |-> "COMPLETED"] ]_vars

C15_Witness ==
  \E i \in Invs :
     /\ wf[i].pc = "notify" /\ CleanDeployment(wf[i]) /\ ~wf[i].dbfail
     /\ nslcmops[wf[i].nslcmop_id].operationState = "COMPLETED"
     /\ nsrs.nsState = "READY"

\* the detailed-status d stored for the join of w has a line for task_ro that
\* says "Timeout"
TimeoutReported(w, d) ==
  /\ task_ro \in FailedTasks(w)
  /\ error_text_entry(task_ro, w.outcomes[task_ro], w.ns_status)
        \in {"Deploy at VIM: Timeout", "Deploy at VIM: Timeout waiting ns to be ready"}
  /\ \E s \in TaskOrders : d = join_lines(FailureTexts(w, s))

\* C16: an instantiate whose RO deployment has not reached ACTIVE when the wait
\* for the deployment ends is stored FAILED with a detailed-status that
\* contains "Timeout"
C16_ROTimeoutFails ==
  [][ \A i \in Invs :
        (/\ wf[i].pc = "join" /\ wf'[i].pc = "notify"
         /\ wf[i].ns_status \in {None, "BUILD"}
         /\ wf'[i].outcomes # NoOutcomes /\ ~wf'[i].dbfail)
           => /\ nslcmops'[wf[i].nslcmop_id].operationState = "FAILED"
              /\ TimeoutReported(wf'[i], nslcmops'[wf[i].nslcmop_id].detailed_status) ]_vars

\* the NSR reports that the operation of kind k went well
ReportsSuccess(nsr, k) ==
  \/ k = "instantiate" /\ nsr.nsState = "READY"
  \/ k = "terminate" /\ nsr.nsState \in {"IDLE", "NOT_INSTANTIATED"}

\* C17: an invocation that was cancelled at one of its awaits ends, and when it
\* ends (its database updates succeeding) the nslcmop is FAILED with the
\* detailed-status "Operation was cancelled", the NSR does not report success
\* and the invocation is no longer in the task registry
C17_CancelledCleanup ==
  [][ \A i \in Invs :
        /\ (wf[i].pc \in AwaitPcs /\ wf'[i].cancelled /\ ~wf'[i].dbfail)
              => /\ wf'[i].pc \in {"notify", "done"}
                 /\ nslcmops'[wf[i].nslcmop_id].operationState = "FAILED"
                 /\ nslcmops'[wf[i].nslcmop_id].detailed_status = "Operation was cancelled"
                 /\ ~ReportsSuccess(nsrs', Kind(wf[i].nslcmop_id))
        /\ (wf[i].pc \notin {"done", "raised"} /\ wf'[i].pc \in {"done", "raised"}
               /\ wf'[i].cancelled)
              => ~Registered(i)' ]_vars

\* the answers RO gave to the deletion requests of the terminate with locals w
Answers(w) == { w.ro_answers[n] : n \in 1..Len(w.ro_answers) }
TerminateAwaits == {"t_delete", "t_poll", "t_nsd", "t_vnfd"}

\* C18: a terminate to whose deletion requests RO answered with success or
\* with 404, wherever the 404 came (deleting the ns, polling the delete action,
\* deleting the nsd, deleting the vnfd), is stored COMPLETED, and the ns, delete
\* action, nsd and vnfd ids of _admin.deployed.RO are cleared in the NSR
C18_NotFoundIsDeleted ==
  [][ \A i \in Invs :
        (/\ wf[i].pc \in TerminateAwaits /\ wf'[i].pc \notin TerminateAwaits
         /\ ~wf'[i].cancelled /\ ~wf'[i].dbfail
         /\ \E a \in Answers(wf'[i]) : a[2] = "404"
         /\ \A a \in Answers(wf'[i]) : a[2] \in {"ok", "ACTIVE", "404"})
           => /\ wf'[i].pc = "notify"
              /\ nslcmops'[wf[i].nslcmop_id].operationState = "COMPLETED"
              /\ nsrs'.deployed # "full"
              /\ nsrs'.RO_delete_action = None
              /\ nsrs'.RO_nsd_id = None
              /\ nsrs'.RO_vnfd_id = None ]_vars

C18_Witness ==
  \E i \in Invs :
     /\ wf[i].pc = "notify" /\ ~wf[i].dbfail
     /\ wf[i].ro_answers = << << "ns", "ok" >>, << "action", "404" >>,
                              << "nsd", "404" >>, << "vnfd", "404" >> >>
     /\ nslcmops[wf[i].nslcmop_id].operationState = "COMPLETED"
     /\ nsrs.RO_nsd_id = None /\ nsrs.RO_vnfd_id = None

\* a deletion step of the terminate with locals w reported an error that is no
\* 404: a request to RO, or the task that deletes the execution environments
DeletionError(w) ==
  \/ w.task_delete_ee = "raised"
  \/ \E a \in Answers(w) : a[2] \notin {"ok", "ACTIVE", "404"}

\* C19: when a terminate that went through its deletion steps returns (not
\* cancelled, its database updates succeeding), the operation is stored FAILED
\* if a deletion step reported an error other than not-found and COMPLETED
\* otherwise
C19_FailedIffDeletionError ==
  [][ \A i \in Invs :
        (/\ wf[i].pc = "pending" /\ wf'[i].pc = "done"
         /\ ~wf[i].cancelled /\ ~wf[i].dbfail /\ wf[i].exc = None)
           => nslcmops'[wf[i].nslcmop_id].operationState =
                 IF DeletionError(wf[i]) THEN "FAILED" ELSE "COMPLETED" ]_vars

\* operation o has asked RO for the deletion fn
Requested(log, fn, o) == \E n \in 1..Len(log) : log[n].fn = fn /\ log[n].op = o

\* C20: when the try block of a terminate that has begun its work ends without
\* a cancellation, whatever failed on the way (the terminate primitive, the
\* deletion of the ns at RO, of the nsd), the deletion of the deployed nsd and
\* of the deployed vnfd has been requested, the task deleting the execution
\* environments has been created, and the stored detailed-status is the
\* collected texts of the failures
C20_EveryStepAttempted ==
  [][ \A i \in Invs :
        (/\ wf[i].pc \in TerminateAwaits \cup {"t_action"}
         /\ wf'[i].pc \notin TerminateAwaits \cup {"t_action"}
         /\ ~wf'[i].cancelled /\ ~wf'[i].dbfail)
           => /\ nsrs.RO_nsd_id # None => Requested(calls', "RO.delete_nsd", wf[i].nslcmop_id)
              /\ nsrs.RO_vnfd_id # None => Requested(calls', "RO.delete_vnfd", wf[i].nslcmop_id)
              /\ wf'[i].pc = "notify" /\ wf'[i].pending_tasks
              /\ wf'[i].failed_detail # << >>
                    => nslcmops'[wf[i].nslcmop_id].detailed_status =
                          join_details(wf'[i].failed_detail) ]_vars

\* C21: when a terminate stores COMPLETED (its database updates succeeding),
\* with or without a terminate primitive, which was executed before any
\* deletion was requested, the NSR is left with nsState NOT_INSTANTIATED,
\* _admin.nsState NOT_INSTANTIATED, currentOperation IDLE, no
\* currentOperationID, no errorDescription and no errorDetail
C21_TerminatedNsr ==
  [][ \A i \in Invs :
        (/\ wf[i].pc \in TerminateAwaits \cup {"t_action", "wait"}
         /\ Kind(wf[i].nslcmop_id) = "terminate"
         /\ wf'[i].pc = "notify"
         /\ wf'[i].nslcmop_operation_state = "COMPLETED" /\ ~wf'[i].dbfail)
           => /\ nsrs'.nsState = "NOT_INSTANTIATED"
              /\ nsrs'.nsState_admin = "NOT_INSTANTIATED"
              /\ nsrs'.currentOperation = "IDLE"
              /\ nsrs'.currentOperationID = None
              /\ nsrs'.errorDescription = None
              /\ nsrs'.errorDetail = None ]_vars

\* ------------------------------------------------------------ claims C22..
IsDeployStep == D_call'.tick # D_call.tick /\ D_call'.kind = "deploy"

\* the positions of a list that hold the unit of a key
UnitPositions(list, k) ==
  { n \in 1..Len(list) :
      /\ ~list[n].null
      /\ UnitKey(list[n]) = << k.member_vnf_index, k.vdu_id, k.kdu_name, k.vdu_index >> }

\* C22: a lookup of a deployment unit by (member-vnf-index, vdu_id, kdu_name,
\* vdu_count_index) creates an entry only when the directory has no unit with
\* that key, and otherwise returns the index the unit already has; the units
\* already in the directory keep their index, null entries included, and the
\* directory (in memory and in the store) never holds two units with one key
C22_DirectoryLookup ==
  [][ IsDeployStep =>
        LET k == D_call'.key
            before == UnitPositions(D_mem, k)
        IN /\ D_call'.created <=> (before = {})
           /\ before # {} => /\ before = {D_call'.vca_index + 1}
                             /\ D_mem' = D_mem /\ D_db' = D_db
           /\ before = {} => /\ D_call'.vca_index = Len(D_mem)
                             /\ Len(D_mem') = Len(D_mem) + 1
           /\ \A n \in 1..Len(D_mem) : D_mem'[n] = D_mem[n]
           /\ UnitPositions(D_mem', k) = {D_call'.vca_index + 1}
           /\ D_db' = D_mem'
           /\ NoDuplicateUnits(D_mem') /\ NoDuplicateUnits(D_db') ]_vars

\* a unit is found behind a null entry, after it was created by an earlier call
C22_Witness ==
  /\ D_call.kind = "deploy" /\ ~D_call.created
  /\ D_call.vca_index >= 1
  /\ \E n \in 1..D_call.vca_index : D_db[n].null
  /\ D_call.vca_index + 1 > MaxStartUnits

\* the entry of the unit the task works for, as instantiate() read it
TaskUnit == N_mem[N_task.vca_index + 1]

\* C23: the task of a unit that is already in the directory with the ee_id of
\* an execution environment registers no execution environment, and a
\* create_execution_environment it calls names that ee_id for reuse
C23_NoSecondEnvironment ==
  [][ (N_task.pc # "idle" /\ N_call'.tick # N_call.tick /\ TaskUnit.ee_id # None)
        => /\ N_call'.fn # "register_execution_environment"
           /\ N_call'.fn = "create_execution_environment" => N_call'.reuse_ee_id = TaskUnit.ee_id ]_vars

\* C24: an entry of _admin.deployed.K8s that records an installed KDU (a
\* kdu-instance) keeps that record, and no further install is requested for
\* that KDU
C24_KduInstalledOnce ==
  [][ \A n \in 1..Len(K_db) :
        K_db[n].kdu_instance # None
          => /\ Len(K_db') >= n
             /\ K_db'[n].kdu_instance = K_db[n].kdu_instance
             /\ K_installs'[K_db[n].kdu_name] = K_installs[K_db[n].kdu_name] ]_vars

\* the positions at which instantiate_N2VC is suspended in an await
N2vcAwaits == {"vm_native", "ee", "install", "vm_proxy", "sleep", "prim"}

\* C25: whenever the instantiate_N2VC task is suspended, the entry of its
\* unit in the in-memory NSR and in the stored NSR agree on the fields the
\* task writes (ee_id, instantiation)
C25_MemoryMatchesStore ==
  N_task.pc \in N2vcAwaits
    => /\ TaskUnit.ee_id = N_db[N_task.vca_index + 1].ee_id
       /\ TaskUnit.instantiation = N_db[N_task.vca_index + 1].instantiation

\* the list a step of the task hands to the loop of _wait_dependent_n2vc: the
\* list of instantiate() on the first turn, the stored one after a sleep
ListRead == IF N_task.pc = "sleep" THEN N_db ELSE N_mem

\* the positions of the units the task's unit has to wait for: all the others
\* for the NS charm, the others of the same VNF for a VNF charm, none for a
\* VDU or KDU charm
Dependencies ==
  { n \in 1..Len(N_mem) :
      /\ n # N_task.vca_index + 1
      /\ TaskUnit.vdu_id = None /\ TaskUnit.kdu_name = None
      /\ TaskUnit.member_vnf_index = None
           \/ N_mem[n].member_vnf_index = TaskUnit.member_vnf_index }

\* a step in which the task leaves an await that precedes or is the wait
IsWaitStep == N_task.pc \in {"install", "vm_proxy", "sleep"} /\ N_task' # N_task

\* C28: the task starts its initial config primitives only when every unit
\* it depends on has instantiation COMPLETED in the list it reads, and when
\* a unit it depends on has instantiation FAILED there it neither sleeps nor
\* starts its primitives: it fails
C28_DependencyWait ==
  [][ IsWaitStep =>
        /\ N_task'.pc = "prim" => \A n \in Dependencies : ListRead[n].instantiation = "COMPLETED"
        /\ (\E n \in Dependencies : ListRead[n].instantiation = "FAILED")
              => N_task'.pc \notin {"prim", "sleep"} ]_vars

\* C29: the wait for the units it depends on ends, with the timeout failure
\* at the latest, when the task has slept 300 seconds
C29_WaitTimeout ==
  N_task.pc = "sleep" => N_task.slept < wait_timeout

\* the loop condition fails after this sleep: the ceiling is reached
CeilingReached ==
  /\ P_loop.pc = "sleep"
  /\ CASE P_loop.kind = "instantiate_RO" -> P_loop.timer + poll_sleep > total_deploy_timeout
       [] P_loop.kind = "terminate" -> P_loop.timer - poll_sleep <= 0
       [] OTHER -> P_loop.timer - poll_sleep <= 0

TimeoutErrors ==
  { "ROClientException: Timeout waiting ns to be ready",
    "ROClientException: Timeout waiting ns deleted from VIM" }

\* C26: in each of the three loops a poll that made the loop raise is the
\* last one, a loop that has ended polls no more, and a loop that reaches its
\* ceiling while still polling ends by raising a timeout error
C26_LoopEnds ==
  [][ /\ P_loop.pc \in {"raised", "done"} => P_loop' = P_loop
      /\ (P_loop'.pc # P_loop.pc /\ CeilingReached)
            => P_loop'.pc = "raised" /\ P_loop'.exc \in TimeoutErrors ]_vars

\* C27: a loop writes its status text to the store only when the text
\* differs from the text it wrote last
C27_WriteOnlyOnChange ==
  [][ P_write'.tick # P_write.tick => P_write'.text # P_write.text ]_vars

\* a poll found the text unchanged and nothing was written
C27_Witness ==
  /\ P_loop.pc = "sleep" /\ ~P_loop.wrote
  /\ P_write.text = P_loop.detailed_status
  /\ P_write.text = loop_step(P_loop.kind) \o "; info1"

\* the orchestrator holds at most one vnfd / nsd per osm_id and at most one ns
OneObjectEach(ro) ==
  /\ \A o1, o2 \in ro.objects : (o1.item = o2.item /\ o1.osm_id = o2.osm_id) => o1 = o2
  /\ Cardinality(ro.ns) <= 1

IsCreateRequest == R_call'.tick # R_call.tick /\ R_call'.fn = "create"

SendsScaleAction(i) ==
  /\ wf[i].pc \in {"wait", "s_pre"} /\ wf'[i].pc = "s_ro_create"
  /\ Len(calls') > Len(calls)

\* some invocation of operation o has called scale_vnfr
VnfrScaledBy(o) == { j \in Invs : wf[j].nslcmop_id = o /\ wf[j].vnfr_scaled }

\* RO.create_action was sent for operation o
ScaleActionSent(o) ==
  \E n \in 1..Len(calls) : calls[n].fn = "RO.create_action" /\ calls[n].op = o

\* C31: the steps of a scale keep their order: RO.create_action is only sent
\* by an invocation whose pre-scale primitive returned well (or in whose
\* operation it did so before); when the operation is stored COMPLETED and its
\* scale action was sent, scale_vnfr has been called by exactly one of its
\* invocations; and a post-scale primitive is only sent after scale_vnfr
C31_ScaleOrder ==
  [][ \A i \in Invs :
        /\ SendsScaleAction(i) =>
             (wf'[i].pre_ok \/ PreScaleSucceeded(wf[i].nslcmop_id, i))
        /\ (/\ wf[i].pc \in {"wait", "s_pre", "s_ro_create", "s_ro_poll", "s_ro_ip", "s_post"}
            /\ Kind(wf[i].nslcmop_id) = "scale"
            /\ nslcmops'[wf[i].nslcmop_id].operationState = "COMPLETED"
            /\ nslcmops[wf[i].nslcmop_id].operationState # "COMPLETED"
            /\ ScaleActionSent(wf[i].nslcmop_id)')
             => Cardinality(VnfrScaledBy(wf[i].nslcmop_id)') = 1
        /\ (wf[i].pc # "s_post" /\ wf'[i].pc = "s_post")
             => VnfrScaledBy(wf[i].nslcmop_id)' # {} ]_vars

\* ------------------------------------------------------ the scale counter
\* only operation o has sent RO.create_action: the stored nb-scale-op was the
\* initial one when o began
OnlyScaleActionsOf(o) ==
  \A n \in 1..Len(calls) : calls[n].fn = "RO.create_action" => calls[n].op = o

\* the stored operationState of operation o becomes COMPLETED in this step
BecomesCompleted(o) ==
  /\ nslcmops[o].operationState # "COMPLETED"
  /\ nslcmops'[o].operationState = "COMPLETED"

\* C32: when a scale operation whose RO.create_action was sent is stored
\* COMPLETED, by its first invocation or by a later one with the same
\* nslcmop_id, the stored nb-scale-op is the value before the operation plus
\* one (SCALE_OUT) or minus one (SCALE_IN)
C32_CounterFollowsAction ==
  [][ \A o \in Ops :
        (/\ opShape[o].kind = "scale"
         /\ BecomesCompleted(o)
         /\ ScaleActionSent(o)' /\ OnlyScaleActionsOf(o)')
          => nsrs'.nb_scale_op = scale_count(ScalingType(o), InitNsr(TRUE).nb_scale_op) ]_vars

\* --------------------------------------------- the states of a checkpoint
\* the stored checkpoints of operation o
StoredCheckpoints(led, o) == led[o].led.operations

\* C33: every stored checkpoint reads PROCESSING, COMPLETED or FAILED; the
\* SCALE-RO checkpoint of an invocation that still polls the RO action is not
\* COMPLETED; and when _ns_execute_primitive returns to the pre-scale step the
\* checkpoint reads COMPLETED after 'OK' and FAILED after 'FAIL'
C33_CheckpointStates ==
  [][ /\ \A o \in Ops : \A k \in 1..Len(StoredCheckpoints(nslcmops', o)) :
           StoredCheckpoints(nslcmops', o)[k].operationState
               \in {"PROCESSING", "COMPLETED", "FAILED"}
      /\ \A i \in Invs :
           /\ wf'[i].pc = "s_ro_poll" =>
                StoredCheckpoints(nslcmops', wf'[i].nslcmop_id)[wf'[i].op_index + 1].operationState
                    # "COMPLETED"
           /\ (wf[i].pc = "s_pre" /\ wf'[i].pc # "s_pre" /\ ~wf'[i].cancelled) =>
                StoredCheckpoints(nslcmops', wf[i].nslcmop_id)[wf[i].op_index + 1].operationState
                    = IF wf'[i].pre_ok THEN "COMPLETED" ELSE "FAILED" ]_vars

\* ------------------------------------------------- the frame of the ledger
\* the stored checkpoints before position n are the same after the step
SameStoredUpTo(n) ==
  /\ Len(L_stored'.operations) >= n
  /\ \A m \in 1..n : L_stored'.operations[m] = L_stored.operations[m]

\* C34: a check that appends a checkpoint (it returns NEW) makes the stored
\* list one longer and leaves every checkpoint stored before as it was, fields
\* and status; a status update changes operationState and detailed-status of
\* the indexed checkpoint only and leaves the record in memory alone
C34_LedgerFrame ==
  [][ /\ (IsCheckStep /\ L_call'.ret = SUBOPERATION_STATUS_NEW) =>
           /\ Len(L_stored'.operations) = Len(L_stored.operations) + 1
           /\ SameStoredUpTo(Len(L_stored.operations))
      /\ (L_call'.tick # L_call.tick /\ L_call'.kind = "update") =>
           /\ L_rec' = L_rec
           /\ Len(L_stored'.operations) = Len(L_stored.operations)
           /\ \A m \in 1..Len(L_stored.operations) :
                IF m = L_call'.ret + 1
                THEN CheckpointKey(L_stored'.operations[m]) = CheckpointKey(L_stored.operations[m])
                ELSE L_stored'.operations[m] = L_stored.operations[m] ]_vars

\* --------------------------------------- one checkpoint per step of a scale
\* invocation i is the only invocation of its operation
OnlyInvocation(i) == \A j \in Invs \ {i} : wf[j].nslcmop_id # wf[i].nslcmop_id

\* C35: in the first invocation of a scale whose pre-scale primitive returned
\* well, the post-scale step appends a checkpoint of its own (the list grows by
\* one and the step works on the new last index) and sends the primitive: the
\* SCALE RO block is never followed by COMPLETED without it
C35_OwnCheckpoints ==
  [][ \A i \in Invs :
        (/\ wf[i].pc \in {"s_ro_create", "s_ro_poll", "s_ro_ip"}
         /\ wf[i].pre_ok /\ OnlyInvocation(i)) =>
           /\ (wf'[i].pc = "s_post") =>
                /\ Len(StoredCheckpoints(nslcmops', wf[i].nslcmop_id))
                     = Len(StoredCheckpoints(nslcmops, wf[i].nslcmop_id)) + 1
                /\ wf'[i].op_index
                     = Len(StoredCheckpoints(nslcmops', wf[i].nslcmop_id)) - 1
           /\ ~BecomesCompleted(wf[i].nslcmop_id) ]_vars

\* ------------------------------------------------- the dispatch with retry
\* C36: _ns_execute_primitive calls n2vc.exec_primitive at most retries + 1
\* times, never again after a call that returned, with one sleep of
\* retries_interval before each call but the first; it returns 'OK' with the
\* output exactly when a call returned, and 'FAIL' with an error text only
\* when the record was not found or retries + 1 calls raised; action then
\* stores COMPLETED for 'OK' and FAILED for 'FAIL', with that text as
\* detailed-status
C36_DispatchWithRetry ==
  /\ E_task.attempts <= E_task.given + 1
  /\ E_task.waited = retries_interval * (IF E_task.attempts = 0 THEN 0 ELSE E_task.attempts - 1)
  /\ (E_task.succeeded => E_task.pc \in {"returned", "done"})
  /\ E_task.pc \in {"returned", "done"} =>
       /\ (E_task.detail = "OK") = E_task.succeeded
       /\ E_task.detail \in {"OK", "FAIL"}
       /\ E_task.succeeded => E_task.output \in ExecOutputs
       /\ ~E_task.succeeded => E_task.attempts \in {0, E_task.given + 1}
  /\ (E_task.pc = "done" /\ ~E_task.dbfail) =>
       /\ (E_lcmop.operationState = "COMPLETED") = E_task.succeeded
       /\ (E_lcmop.operationState = "FAILED") = ~E_task.succeeded
       /\ E_lcmop.detailed_status = E_task.output

\* the third call succeeded after two that raised, and action stored COMPLETED
C36_Witness ==
  /\ E_task.pc = "done" /\ E_task.succeeded /\ E_task.attempts = 3
  /\ E_task.waited = 2 * retries_interval
  /\ E_lcmop.operationState = "COMPLETED"

\* ------------------------------------------------- the end of instantiate
\* the finally block of invocation i runs in this step
RunsFinally(i) ==
  /\ wf[i].pc \notin {"idle", "notify", "done", "raised"}
  /\ wf'[i].pc \in {"notify", "done", "raised"}

\* C37: when the finally block of an instantiate has stored a terminal
\* operationState, the NSR reads nsState READY exactly when that state is
\* COMPLETED, and after FAILED or FAILED_TEMP it reads BROKEN with an
\* errorDescription that names the operation
C37_ReadyIffCompleted ==
  [][ \A i \in Invs :
        (/\ RunsFinally(i)
         /\ Kind(wf[i].nslcmop_id) = "instantiate"
         /\ wf'[i].wrote \in Terminal /\ ~wf'[i].dbfail) =>
          LET operationState == nslcmops'[wf[i].nslcmop_id].operationState
          IN /\ (nsrs'.nsState = "READY") = (operationState = "COMPLETED")
             /\ operationState \in {"FAILED", "FAILED_TEMP"} =>
                  /\ nsrs'.nsState = "BROKEN"
                  /\ nsrs'.errorDescription = "Operation: INSTANTIATING" ]_vars

\* ------------------------------------------- the sub-tasks of a workflow
\* C38: when an invocation calls lcm_tasks.remove and returns, none of the
\* tasks it created is still running: no deployment task of instantiate was
\* left pending by asyncio.wait, and the delete_namespace task of terminate
\* has ended
C38_NoTaskOutlivesWorkflow ==
  [][ \A i \in Invs :
        (wf[i].pc \in {"notify", "pending"} /\ wf'[i].pc = "done") =>
           /\ \A t \in DOMAIN wf[i].outcomes : wf[i].outcomes[t] # "pending"
           /\ wf[i].task_delete_ee # "running" ]_vars

\* ------------------------------------------ the flags of an earlier attempt
\* unit n stored instantiation FAILED in this attempt: the list instantiate()
\* loaded at entry did not say so
FailedInThisAttempt(n) ==
  N_db[n].instantiation = "FAILED" /\ N_mem[n].instantiation # "FAILED"

\* C39: a task that gives up its wait because a unit it depends on has failed
\* does so on a failure of the current attempt: some unit it depends on has
\* stored FAILED since instantiate() was entered; a FAILED left by an earlier
\* attempt makes it wait
C39_CurrentAttemptFlags ==
  [][ (IsWaitStep /\ N_task'.exc = "dependent charm/s has failed")
        => \E n \in Dependencies : FailedInThisAttempt(n) ]_vars

\* ------------------------------------------------- the records of the KDUs
\* deploy_kdus has returned or raised
KdusDeployed == K_task.pc \in {"done", "failed"}

\* C40: once deploy_kdus has ended, _admin.deployed.K8s holds one record per
\* kdur, in the order of the kdurs; the record of an installed KDU carries the
\* handle its install returned and every other record carries an error text in
\* detailed-status
C40_OneRecordPerKdu ==
  KdusDeployed
    => /\ Len(K_db) = Len(K_kdurs)
       /\ \A n \in 1..Len(K_db) :
            /\ K_db[n].kdu_name = K_kdurs[n].kdu_name
            /\ \/ K_db[n].kdu_instance = "instance-" \o K_kdurs[n].kdu_name
               \/ K_db[n].kdu_instance = None /\ K_db[n].detailed_status # None
=============================================================================
